---------------------------- MODULE Spec2Model ----------------------------
(***************************************************************************)
(* Connectome construction of the scaffold (src/scaffold/connectivity.py). *)
(*                                                                         *)
(* A population is the array scaffold.cells_by_type[name]: one row per     *)
(* cell, (id, type, x, y, z).  Rows are modelled as records with the       *)
(* fields id, x, y, z (the type column is never read by a strategy).       *)
(* Coordinates are integers, so every squared distance is exact; a         *)
(* comparison with a square root or a division is modelled by the          *)
(* equivalent comparison of squares / cross products.                      *)
(*                                                                         *)
(* connect() of a strategy is modelled by a begin step (the gathering of   *)
(* its inputs), one step per iteration of its outer loop, and a finish     *)
(* step (the calls to scaffold.connect_cells).                             *)
(***************************************************************************)
EXTENDS Integers, Sequences, FiniteSets, TLC

VARIABLES
    strategy,                 \* the ConnectionStrategy instance being driven
    cells_by_type,            \* scaffold.cells_by_type: role -> rows
    cfg,                      \* the strategy's scalar configuration
    pending,                  \* connect() invocations the driver still issues
    pc,                       \* position inside connect()
    order,                    \* the rows the outer loop iterates over
    k,                        \* index of the next row of the outer loop
    work,                     \* private working copy (new_glomeruli, new_granules)
    results,                  \* first local result array
    results2,                 \* second local result array (two-tag strategies)
    cell_connections_by_tag,  \* scaffold.cell_connections_by_tag
    appends,                  \* scaffold.appends (derived datasets)
    calls,                    \* calls made to the storage collaborator
    error,                    \* the exception connect() ended with, or "none"
    densityWarningSent,       \* ConnectomeGranuleGolgi: the warning was due already
    stdout,                   \* what connect() has printed
    config                    \* the ScaffoldConfig object (src/scaffold/config.py)

vars == << strategy, cells_by_type, cfg, pending, pc, order, k, work, results,
           results2, cell_connections_by_tag, appends, calls, error,
           densityWarningSent, stdout, config >>

----------------------------------------------------------------------------
(* Bounds of the model *)

MaxCoord == 1      \* coordinates range over 0..MaxCoord
MaxCells == 4      \* largest number of cells placed in the volume
MaxParam == 2      \* largest radius / cap / extension
RollDen == 3       \* a random roll is one of 0/RollDen .. (RollDen-1)/RollDen
MaxLayers == 3     \* largest number of addLayer calls
MaxSections == 4   \* largest number of sections of a configuration file

(* Program constants *)

OobFactor == 1000  \* oob = configuration.X * 1000.

----------------------------------------------------------------------------
(* Helpers *)

Min(a, b) == IF a < b THEN a ELSE b

Abs(a) == IF a < 0 THEN -a ELSE a

Range(s) == {s[i] : i \in DOMAIN s}

SeqsUpTo(S, n) == UNION {[1..m -> S] : m \in 0..n}

Perms(S) == {s \in [1..Cardinality(S) -> S] : \A i, j \in DOMAIN s : i # j => s[i] # s[j]}

RECURSIVE AscendingSeq(_)
\* np.where(...)[0]: the matching row indexes in ascending order
AscendingSeq(S) ==
    IF S = {} THEN << >>
    ELSE LET m == CHOOSE x \in S : \A y \in S : x <= y
         IN << m >> \o AscendingSeq(S \ {m})

\* argsort: an order of S ascending in key; the order of ties is not specified
SortedOrders(S, key(_)) ==
    {s \in Perms(S) : \A i, j \in DOMAIN s : i < j => key(s[i]) <= key(s[j])}

Point(px, py, pz) == [x |-> px, y |-> py, z |-> pz]

PointsX == {Point(a, 0, 0) : a \in 0..MaxCoord}

PointsXY == {Point(a, b, 0) : a \in 0..MaxCoord, b \in 0..1}

PointsXZ == {Point(a, 0, b) : a \in 0..MaxCoord, b \in 0..1}

\* The order in which placement fills the volume
Rank(p) == 4 * p.x + 2 * p.y + p.z

\* At most n points of a set in placement order
Placements(S, n) ==
    {s \in SeqsUpTo(S, n) : \A i, j \in DOMAIN s : i < j => Rank(s[i]) <= Rank(s[j])}

AnyOrderX(n) == SeqsUpTo(PointsX, n)

PlacedX(n) == Placements(PointsX, n)

PlacedXY(n) == Placements(PointsXY, n)

PlacedXZ(n) == Placements(PointsXZ, n)

\* The rows of a densely packed population whose first row has id `first`
Population(first, pts) ==
    [i \in 1..Len(pts) |->
        [id |-> first + i - 1, x |-> pts[i].x, y |-> pts[i].y, z |-> pts[i].z]]

NoCells == << >>

Ids(rows) == {rows[i].id : i \in DOMAIN rows}

Dist2(a, b) == (a.x - b.x) * (a.x - b.x) + (a.y - b.y) * (a.y - b.y) + (a.z - b.z) * (a.z - b.z)

Dist2XY(a, b) == (a.x - b.x) * (a.x - b.x) + (a.y - b.y) * (a.y - b.y)

Dist2XZ(a, b) == (a.x - b.x) * (a.x - b.x) + (a.z - b.z) * (a.z - b.z)

\* The edges of a result array whose to-column (second) is id
EdgesTo(edges, id) == {i \in DOMAIN edges : edges[i][2] = id}

EdgesFrom(edges, id) == {i \in DOMAIN edges : edges[i][1] = id}

NoConfig ==
    [convergence |-> 0, divergence |-> 0, radius |-> 0, X |-> MaxCoord,
     aa_convergence |-> 0, pf_convergence |-> 0, limit_x |-> 0, limit_z |-> 0,
     axon_x |-> 0, axon_y |-> 0, axon_z |-> 0, r_glom |-> 0, thickness |-> 0,
     verbosity |-> 0, extension_x |-> 0, extension_z |-> 0, limit_xy |-> 0]

----------------------------------------------------------------------------
(* The storage collaborator (scaffold.connect_cells, scaffold.append_dset) *)

Stored(tag) == IF tag \in DOMAIN cell_connections_by_tag THEN cell_connections_by_tag[tag] ELSE << >>

\* record_edges: a tag's edge list is append-only
connect_cells(store, tag, edges) ==
    [t \in DOMAIN store \cup {tag} |->
        IF t = tag THEN (IF tag \in DOMAIN store THEN store[tag] \o edges ELSE edges)
        ELSE store[t]]

\* record_derived_dataset
append_dset(sets, name, data) ==
    [n \in DOMAIN sets \cup {name} |-> IF n = name THEN data ELSE sets[n]]

NoStore == [t \in {} |-> << >>]

\* A Python dict: its items << key, value >> in insertion order
DictHas(d, key) == \E i \in DOMAIN d : d[i][1] = key

DictGet(d, key) == d[CHOOSE i \in DOMAIN d : d[i][1] = key][2]

\* d[key] = value: a new key goes last, a known key keeps its place
DictSet(d, key, value) ==
    IF DictHas(d, key)
    THEN [i \in DOMAIN d |-> IF d[i][1] = key THEN << key, value >> ELSE d[i]]
    ELSE Append(d, << key, value >>)

\* list(d.values())
DictValues(d) == [i \in DOMAIN d |-> d[i][2]]

\* ScaffoldConfig.__init__: empty dictionaries and lists
ScaffoldConfigInit ==
    [CellTypes |-> << >>, CellTypeIDs |-> << >>, Layers |-> << >>, LayerIDs |-> << >>,
     ConnectionTypes |-> << >>, Geometries |-> << >>, PlacementStrategies |-> << >>,
     sections |-> << >>]

\* The state every connect() starts from
Idle(s, cells, c, n) ==
    /\ strategy = s
    /\ cells_by_type = cells
    /\ cfg = c
    /\ pending = n
    /\ pc = "idle"
    /\ order = << >>
    /\ k = 0
    /\ work = << >>
    /\ results = << >>
    /\ results2 = << >>
    /\ cell_connections_by_tag = NoStore
    /\ appends = NoStore
    /\ calls = << >>
    /\ error = "none"
    /\ densityWarningSent = FALSE
    /\ config = ScaffoldConfigInit
    /\ stdout = << >>

\* Two populations of at most n cells together, placed one after the other in
\* either order: ids are dense and globally unique.  Each population is drawn
\* from pops(m), the populations of at most m cells.
TwoPopulations(fromPops(_), toPops(_), n) ==
    UNION { { [from |-> Population(0, ft[1]), from2 |-> NoCells, to |-> Population(Len(ft[1]), ft[2])],
              [from |-> Population(Len(ft[2]), ft[1]), from2 |-> NoCells, to |-> Population(0, ft[2])] } :
            ft \in UNION { {<< f, t >> : t \in toPops(n - Len(f))} : f \in fromPops(n) } }

\* The same with a cap on each population
SplitPopulations(fromPops(_), toPops(_), nf, nt) ==
    UNION { { [from |-> Population(0, ft[1]), from2 |-> NoCells, to |-> Population(Len(ft[1]), ft[2])],
              [from |-> Population(Len(ft[2]), ft[1]), from2 |-> NoCells, to |-> Population(0, ft[2])] } :
            ft \in fromPops(nf) \X toPops(nt) }

\* A variant in which the working array is the scaffold's array itself
np_copy_shares_memory == TRUE

\* new = np.copy(a): the copy shares no memory with a
np_copy_shares == FALSE

\* The scaffold's population arrays after `new` has been written to: a write
\* reaches them only if `new` shares their memory
written_through(cells, role, new) ==
    IF np_copy_shares THEN [cells EXCEPT ![role] = new] ELSE cells

\* connect() raises: nothing more of it runs
Raise(e) ==
    /\ pc' = "raised"
    /\ error' = e
    /\ pending' = pending - 1

----------------------------------------------------------------------------
(* ConnectomeGlomerulusGranule: from = glomeruli, to = granules *)

TagGlomGrc == "glomerulus_to_granule"

\* distance_vector < 0.
glom_grc_gate(glom, gran, dend_len) == Dist2(glom, gran) - dend_len * dend_len < 0

\* good_gloms: the row indexes of the glomeruli that pass the gate
glom_grc_good_gloms(glomeruli, gran, dend_len) ==
    {i \in DOMAIN glomeruli : glom_grc_gate(glomeruli[i], gran, dend_len)}

\* A variant that selects every glomerulus in range, whatever the cap
glom_grc_connected_gloms_uncapped(glomeruli, gran, dend_len, n_conn_glom) ==
    {AscendingSeq(glom_grc_good_gloms(glomeruli, gran, dend_len))}

\* A variant that keeps the candidates in row order instead of sorting them
glom_grc_connected_gloms_unsorted(glomeruli, gran, dend_len, n_conn_glom) ==
    LET good_gloms == glom_grc_good_gloms(glomeruli, gran, dend_len)
    IN  {SubSeq(AscendingSeq(good_gloms), 1, Min(n_conn_glom, Cardinality(good_gloms)))}

\* connected_gloms[0:connected_glom_len], every outcome of the argsort
glom_grc_connected_gloms(glomeruli, gran, dend_len, n_conn_glom) ==
    LET good_gloms == glom_grc_good_gloms(glomeruli, gran, dend_len)
        distance(i) == Dist2(glomeruli[i], gran) - dend_len * dend_len
    IN  IF Cardinality(good_gloms) > n_conn_glom
        THEN {SubSeq(s, 1, n_conn_glom) : s \in SortedOrders(good_gloms, distance)}
        ELSE {AscendingSeq(good_gloms)}

\* results[next_index + i] = [connected_gloms[i] + first_glomerulus, gran_id]
glom_grc_rows(connected_gloms, first_glomerulus, gran_id) ==
    [i \in DOMAIN connected_gloms |-> << (connected_gloms[i] - 1) + first_glomerulus, gran_id >>]

GlomGrcBegin ==
    /\ strategy = "glom_grc"
    /\ pc = "idle"
    /\ pending > 0
    /\ IF Len(cells_by_type.from) = 0
       THEN \* int(glomeruli[0,0]) on an array without rows
            /\ Raise("IndexError")
            /\ UNCHANGED << order, k, results >>
       ELSE /\ pc' = "loop"
            /\ order' = cells_by_type.to
            /\ k' = 1
            /\ results' = << >>
            /\ UNCHANGED << error, pending >>
    /\ UNCHANGED << strategy, cells_by_type, cfg, work, results2,
                    cell_connections_by_tag, appends, calls >>
    /\ UNCHANGED << densityWarningSent, stdout >>
    /\ UNCHANGED config

GlomGrcLoop ==
    /\ strategy = "glom_grc"
    /\ pc = "loop"
    /\ k <= Len(order)
    /\ \E connected_gloms \in glom_grc_connected_gloms(cells_by_type.from, order[k],
                                                      cfg.radius, cfg.convergence) :
          results' = results \o glom_grc_rows(connected_gloms, cells_by_type.from[1].id, order[k].id)
    /\ k' = k + 1
    /\ UNCHANGED << strategy, cells_by_type, cfg, pending, pc, order, work, results2,
                    cell_connections_by_tag, appends, calls, error >>
    /\ UNCHANGED << densityWarningSent, stdout >>
    /\ UNCHANGED config

GlomGrcFinish ==
    /\ strategy = "glom_grc"
    /\ pc = "loop"
    /\ k > Len(order)
    /\ cell_connections_by_tag' = connect_cells(cell_connections_by_tag, TagGlomGrc, results)
    /\ calls' = Append(calls, << "connect_cells", TagGlomGrc >>)
    /\ pc' = "idle"
    /\ pending' = pending - 1
    /\ UNCHANGED << strategy, cells_by_type, cfg, order, k, work, results, results2,
                    appends, error >>
    /\ UNCHANGED << densityWarningSent, stdout >>
    /\ UNCHANGED config

InitGlomGrc(n) ==
    \E cells \in TwoPopulations(AnyOrderX, AnyOrderX, MaxCells),
       r \in 1..MaxParam, c \in 1..MaxParam :
        Idle("glom_grc", cells, [NoConfig EXCEPT !.radius = r, !.convergence = c], n)

NextGlomGrc == GlomGrcBegin \/ GlomGrcLoop \/ GlomGrcFinish

SpecGlomGrc == InitGlomGrc(1) /\ [][NextGlomGrc]_vars


----------------------------------------------------------------------------
(* ConnectomeGlomerulusGolgi: from = glomeruli, to = golgi cells *)

TagGlomGoc == "glomerulus_to_golgi"

\* A variant without the test on the height of the soma
glom_goc_gate_any_height(glom, golgi, r_goc_vol) ==
    Dist2(glom, golgi) - r_goc_vol * r_goc_vol <= 0

\* volume_matrix: within r_goc_vol of the golgi cell, and not above its soma
glom_goc_gate(glom, golgi, r_goc_vol) ==
    /\ Dist2(glom, golgi) - r_goc_vol * r_goc_vol <= 0
    /\ glom.y <= golgi.y

glom_goc_good_gloms(glomeruli, golgi, r_goc_vol) ==
    {i \in DOMAIN glomeruli : glom_goc_gate(glomeruli[i], golgi, r_goc_vol)}

\* matrix[:,0] = good_gloms + first_glomerulus; matrix[:,1] = golgi_id
glom_goc_matrix(good_gloms, first_glomerulus, golgi_id) ==
    LET rows == AscendingSeq(good_gloms)
    IN  [i \in DOMAIN rows |-> << (rows[i] - 1) + first_glomerulus, golgi_id >>]

GlomGocBegin ==
    /\ strategy = "glom_goc"
    /\ pc = "idle"
    /\ pending > 0
    /\ IF Len(cells_by_type.from) = 0
       THEN \* int(glomeruli[0,0]) on an array without rows
            /\ Raise("IndexError")
            /\ UNCHANGED << order, k, results >>
       ELSE /\ pc' = "loop"
            /\ order' = cells_by_type.to
            /\ k' = 1
            /\ results' = << >>
            /\ UNCHANGED << error, pending >>
    /\ UNCHANGED << strategy, cells_by_type, cfg, work, results2,
                    cell_connections_by_tag, appends, calls >>
    /\ UNCHANGED << densityWarningSent, stdout >>
    /\ UNCHANGED config

GlomGocLoop ==
    /\ strategy = "glom_goc"
    /\ pc = "loop"
    /\ k <= Len(order)
    /\ results' = results \o glom_goc_matrix(
                      glom_goc_good_gloms(cells_by_type.from, order[k], cfg.radius),
                      cells_by_type.from[1].id, order[k].id)
    /\ k' = k + 1
    /\ UNCHANGED << strategy, cells_by_type, cfg, pending, pc, order, work, results2,
                    cell_connections_by_tag, appends, calls, error >>
    /\ UNCHANGED << densityWarningSent, stdout >>
    /\ UNCHANGED config

GlomGocFinish ==
    /\ strategy = "glom_goc"
    /\ pc = "loop"
    /\ k > Len(order)
    /\ cell_connections_by_tag' = connect_cells(cell_connections_by_tag, TagGlomGoc, results)
    /\ calls' = Append(calls, << "connect_cells", TagGlomGoc >>)
    /\ pc' = "idle"
    /\ pending' = pending - 1
    /\ UNCHANGED << strategy, cells_by_type, cfg, order, k, work, results, results2,
                    appends, error >>
    /\ UNCHANGED << densityWarningSent, stdout >>
    /\ UNCHANGED config

InitGlomGoc(n) ==
    \E cells \in TwoPopulations(PlacedXY, PlacedXY, MaxCells),
       r \in 1..MaxParam :
        Idle("glom_goc", cells, [NoConfig EXCEPT !.radius = r], n)

NextGlomGoc == GlomGocBegin \/ GlomGocLoop \/ GlomGocFinish

SpecGlomGoc == InitGlomGoc(1) /\ [][NextGlomGoc]_vars

----------------------------------------------------------------------------
(* Rejection sampling shared by the stochastic strategies *)

\* np.random.random() / np.random.uniform(): the numerators of the rolls
Rolls == 0..(RollDen - 1)

\* ra > sqrt(d2) / scale, for the roll ra = roll / RollDen and scale > 0
RollAbove(roll, d2, scale) == roll * roll * scale * scale > d2 * RollDen * RollDen

\* ra > num / den, for the roll ra = roll / RollDen, num >= 0 and den > 0
RollAboveRatio(roll, num, den) == roll * den > num * RollDen

RECURSIVE UncappedWalk(_, _, _, _)
\* A variant of the walk that takes every candidate whose roll passes
UncappedWalk(pass, i, cap, taken) ==
    IF i > Len(pass) THEN << >>
    ELSE IF pass[i]
         THEN << i >> \o UncappedWalk(pass, i + 1, cap, taken + 1)
         ELSE UncappedWalk(pass, i + 1, cap, taken)

RECURSIVE CappedWalk(_, _, _, _)
\* The candidates taken by a walk that takes candidate i when pass[i] holds
\* and fewer than cap candidates were taken before it
CappedWalk(pass, i, cap, taken) ==
    IF i > Len(pass) THEN << >>
    ELSE IF taken < cap /\ pass[i]
         THEN << i >> \o CappedWalk(pass, i + 1, cap, taken + 1)
         ELSE CappedWalk(pass, i + 1, cap, taken)

----------------------------------------------------------------------------
(* ConnectomeGolgiGlomerulus: from = golgi cells, to = glomeruli *)

TagGocGlom == "golgi_to_glomerulus"

\* oob: an arbitrarily large value that excludes a cell from the geometry
Oob(X) == X * OobFactor

\* new_glomeruli[row,:] = oob overwrites every column of the row
OobRow(oob) == [id |-> oob, x |-> oob, y |-> oob, z |-> oob]

\* bool_vector: the glomerulus (a sphere of radius r_glom) meets the axon box
\* of the golgi cell on each axis; the halves of the box are doubled away
goc_glom_gate(glom, golgi, c) ==
    /\ 2 * (glom.x + c.r_glom) >= 2 * golgi.x - c.axon_x
    /\ 2 * (glom.x - c.r_glom) <= 2 * golgi.x + c.axon_x
    /\ 2 * (glom.y + c.r_glom) >= 2 * golgi.y - c.axon_y
    /\ 2 * (glom.y - c.r_glom) <= 2 * golgi.y + c.axon_y
    /\ 2 * (glom.z + c.r_glom) >= 2 * golgi.z - c.axon_z
    /\ 2 * (glom.z - c.r_glom) <= 2 * golgi.z + c.axon_z

\* good_gloms: row indexes, gated on the coordinates of the input array
goc_glom_good_gloms(glomeruli, golgi, c) ==
    {i \in DOMAIN glomeruli : goc_glom_gate(glomeruli[i], golgi, c)}

\* good_gloms_matrix after the permutation and the argsort: the rows of the
\* working copy, ascending in their xy distance to the golgi cell
goc_glom_sorted(good_gloms, new_glomeruli, golgi) ==
    LET distance(i) == Dist2XY(new_glomeruli[i], golgi)
    IN  SortedOrders(good_gloms, distance)

\* The walk over the sorted candidates: the positions it connects
goc_glom_walk(sorted, rolls, new_glomeruli, golgi, c) ==
    LET pass == [i \in DOMAIN sorted |->
                    RollAbove(rolls[i], Dist2XY(new_glomeruli[sorted[i]], golgi), c.thickness)]
    IN  CappedWalk(pass, 1, c.divergence, 0)

\* connections[new_connection_index] = [golgi_id, glomerulus_id + first_glomerulus]
goc_glom_connection(golgi_id, glomerulus_id, first_glomerulus) ==
    << golgi_id, glomerulus_id + first_glomerulus >>

\* new_glomeruli[int(glomerulus_id - first_glomerulus),:] = oob
goc_glom_exclude(new_glomeruli, glomerulus_ids, first_glomerulus, oob) ==
    [i \in DOMAIN new_glomeruli |->
        IF (i - 1) + first_glomerulus \in glomerulus_ids THEN OobRow(oob) ELSE new_glomeruli[i]]

GocGlomBegin ==
    /\ strategy = "goc_glom"
    /\ pc = "idle"
    /\ pending > 0
    /\ IF Len(cells_by_type.to) = 0
       THEN \* int(glomeruli[0,0]) on an array without rows
            /\ Raise("IndexError")
            /\ UNCHANGED << order, k, results, work >>
       ELSE /\ pc' = "loop"
            /\ work' = cells_by_type.to
            /\ \E p \in Perms(DOMAIN cells_by_type.from) :
                  order' = [i \in DOMAIN p |-> cells_by_type.from[p[i]]]
            /\ k' = 1
            /\ results' = << >>
            /\ UNCHANGED << error, pending >>
    /\ UNCHANGED << strategy, cells_by_type, cfg, results2,
                    cell_connections_by_tag, appends, calls >>
    /\ UNCHANGED << densityWarningSent, stdout >>
    /\ UNCHANGED config

GocGlomLoop ==
    /\ strategy = "goc_glom"
    /\ pc = "loop"
    /\ k <= Len(order)
    /\ LET golgi == order[k]
           first_glomerulus == cells_by_type.to[1].id
           good_gloms == goc_glom_good_gloms(cells_by_type.to, golgi, cfg)
       IN  \E sorted \in goc_glom_sorted(good_gloms, work, golgi) :
           \E taken \in {goc_glom_walk(sorted, rolls, work, golgi, cfg) :
                             rolls \in [1..Cardinality(good_gloms) -> Rolls]} :
              LET ids == [i \in DOMAIN taken |-> work[sorted[taken[i]]].id]
              IN  /\ results' = results \o
                         [i \in DOMAIN ids |-> goc_glom_connection(golgi.id, ids[i], first_glomerulus)]
                  /\ work' = goc_glom_exclude(work, Range(ids), first_glomerulus, Oob(cfg.X))
    /\ cells_by_type' = written_through(cells_by_type, "to", work')
    /\ k' = k + 1
    /\ UNCHANGED << strategy, cfg, pending, pc, order, results2,
                    cell_connections_by_tag, appends, calls, error >>
    /\ UNCHANGED << densityWarningSent, stdout >>
    /\ UNCHANGED config

GocGlomFinish ==
    /\ strategy = "goc_glom"
    /\ pc = "loop"
    /\ k > Len(order)
    /\ cell_connections_by_tag' = connect_cells(cell_connections_by_tag, TagGocGlom, results)
    /\ calls' = Append(calls, << "connect_cells", TagGocGlom >>)
    /\ pc' = "idle"
    /\ pending' = pending - 1
    /\ UNCHANGED << strategy, cells_by_type, cfg, order, k, work, results, results2,
                    appends, error >>
    /\ UNCHANGED << densityWarningSent, stdout >>
    /\ UNCHANGED config

\* The axon box is a cube of side 1; a glomerulus has radius 0 or 1
InitGocGlom(n) ==
    \E cells \in SplitPopulations(PlacedX, PlacedX, MaxCells \div 2, MaxCells \div 2),
       d \in 1..MaxParam, t \in 1..MaxParam, r \in 0..1 :
        Idle("goc_glom", cells,
             [NoConfig EXCEPT !.divergence = d, !.thickness = t, !.r_glom = r,
                              !.axon_x = 1, !.axon_y = 1, !.axon_z = 1], n)

NextGocGlom == GocGlomBegin \/ GocGlomLoop \/ GocGlomFinish

SpecGocGlom == InitGocGlom(1) /\ [][NextGocGlom]_vars

----------------------------------------------------------------------------
(* ConnectomeGranuleGolgi: from = granules, to = golgi cells *)

TagAA == "ascending_axon_to_golgi"

TagPF == "parallel_fiber_to_golgi"

DsetAA == "cells/ascending_axon_lengths"

\* The dataset handed to append_dset: one row per granule
get_parallel_fiber_heights(granules) == [i \in DOMAIN granules |-> granules[i].id]

\* A variant that only refuses an empty granule population
grc_goc_too_few_none(granules, golgicells) == Len(granules) <= 0

\* if new_granules.shape[0] <= new_golgicells.shape[0]: raise Exception(...)
grc_goc_too_few(granules, golgicells) == Len(granules) <= Len(golgicells)

\* AA_candidates: distance_vector <= r_goc_vol ** 2 on the working copy
grc_goc_gate(granule, golgi, r_goc_vol) == Dist2XZ(granule, golgi) <= r_goc_vol * r_goc_vol

grc_goc_AA_candidates(new_granules, golgi, r_goc_vol) ==
    {i \in DOMAIN new_granules : grc_goc_gate(new_granules[i], golgi, r_goc_vol)}

\* selected_granules after the permutation and the argsort on prob
grc_goc_sorted(AA_candidates, new_granules, golgi) ==
    LET distance(i) == Dist2XZ(new_granules[i], golgi)
    IN  SortedOrders(AA_candidates, distance)

\* The walk over the sorted ascending axons: if idx < n_connAA: if rolls[ind] > prob[ind]
grc_goc_walk(sorted, rolls, new_granules, golgi, r_goc_vol, n_connAA) ==
    LET pass == [i \in DOMAIN sorted |->
                    RollAbove(rolls[i], Dist2XZ(new_granules[sorted[i]], golgi), r_goc_vol)]
    IN  CappedWalk(pass, 1, n_connAA, 0)

\* A variant that keeps the granules connected by their ascending axon
grc_goc_good_grc_keep_all(granules, connectedAA, first_granule) == granules

\* good_grc = np.delete(granules, connectedAA - first_granule, 0)
grc_goc_good_grc(granules, connectedAA, first_granule) ==
    LET keep == AscendingSeq({i \in DOMAIN granules : (i - 1) + first_granule \notin connectedAA})
    IN  [j \in DOMAIN keep |-> granules[keep[j]]]

\* good_pf: the rows of good_grc whose x lies within r_goc_vol of the golgi cell
grc_goc_good_pf(good_grc, golgi, r_goc_vol) ==
    {j \in DOMAIN good_grc :
        good_grc[j].x >= golgi.x - r_goc_vol /\ good_grc[j].x <= golgi.x + r_goc_vol}

\* np.random.choice(a, size, replace = False): size distinct elements in any order
Choice(a, size) ==
    {s \in [1..size -> a] : \A i, j \in DOMAIN s : i # j => s[i] # s[j]}

\* connected_pf, in either branch of the density test
grc_goc_connected_pf(good_pf, tot_conn, AA_connected_count) ==
    IF Cardinality(good_pf) < tot_conn - AA_connected_count
    THEN Choice(good_pf, Min(tot_conn - AA_connected_count, Cardinality(good_pf)))
    ELSE Choice(good_pf, tot_conn - AA_connected_count)

\* "[WARNING] The granule cell density is too low compared to the Golgi cell
\* density to make physiological connections!"
DensityWarning == "[WARNING] granule cell density too low"

\* if good_pf.shape[0] < parallelFibersToConnect
grc_goc_density_low(good_pf, tot_conn, AA_connected_count) ==
    Cardinality(good_pf) < tot_conn - AA_connected_count

\* densityWarningSent after the golgi cell: set by the first low density
grc_goc_warning_sent(sent, good_pf, tot_conn, AA_connected_count) ==
    sent \/ grc_goc_density_low(good_pf, tot_conn, AA_connected_count)

\* A variant that warns for every golgi cell with too few parallel fibers
grc_goc_warns_each(sent, verbosity, good_pf, tot_conn, AA_connected_count) ==
    /\ grc_goc_density_low(good_pf, tot_conn, AA_connected_count)
    /\ verbosity > 0

\* The warning is printed: low density, not warned before, verbosity > 0
grc_goc_warns(sent, verbosity, good_pf, tot_conn, AA_connected_count) ==
    /\ grc_goc_density_low(good_pf, tot_conn, AA_connected_count)
    /\ ~sent
    /\ verbosity > 0

\* A variant that leaves the connected granules in the working copy
grc_goc_exclude_nothing(new_granules, connectedAA, first_granule, oob) == new_granules

\* new_granules[connectedAA.astype(int) - first_granule,:] = OoB_value
grc_goc_exclude(new_granules, connectedAA, first_granule, oob) ==
    [i \in DOMAIN new_granules |->
        IF (i - 1) + first_granule \in connectedAA THEN OobRow(oob) ELSE new_granules[i]]

RECURSIVE SortedByTarget(_, _)
\* edges[edges[:,1].argsort()]: ascending in the to-column; the order the
\* argsort leaves among the edges of one target is not specified
SortedByTarget(edges, targets) ==
    IF targets = {} THEN {<< >>}
    ELSE LET m == CHOOSE x \in targets : \A y \in targets : x <= y
             block == EdgesTo(edges, m)
         IN  { [i \in 1..Cardinality(block) |-> edges[p[i]]] \o rest :
                  p \in Perms(block), rest \in SortedByTarget(edges, targets \ {m}) }

RECURSIVE StableByTarget(_, _)
\* The same sort keeping the order of the edges of one target
StableByTarget(edges, targets) ==
    IF targets = {} THEN << >>
    ELSE LET m == CHOOSE x \in targets : \A y \in targets : x <= y
             block == AscendingSeq(EdgesTo(edges, m))
         IN  [i \in DOMAIN block |-> edges[block[i]]] \o StableByTarget(edges, targets \ {m})

Targets(edges) == {edges[i][2] : i \in DOMAIN edges}

GrcGocBegin ==
    /\ strategy = "grc_goc"
    /\ pc = "idle"
    /\ pending > 0
    /\ IF Len(cells_by_type.from) = 0
       THEN \* int(granules[0, 0]) on an array without rows
            /\ Raise("IndexError")
            /\ UNCHANGED << order, k, results, results2, work, appends, calls,
                            densityWarningSent >>
       ELSE /\ appends' = append_dset(appends, DsetAA, get_parallel_fiber_heights(cells_by_type.from))
            /\ calls' = Append(calls, << "append_dset", DsetAA >>)
            /\ IF grc_goc_too_few(cells_by_type.from, cells_by_type.to)
               THEN /\ Raise("Exception")
                    /\ UNCHANGED << order, k, results, results2, work, densityWarningSent >>
               ELSE /\ pc' = "loop"
                    /\ work' = cells_by_type.from
                    /\ \E p \in Perms(DOMAIN cells_by_type.to) :
                          order' = [i \in DOMAIN p |-> cells_by_type.to[p[i]]]
                    /\ k' = 1
                    /\ results' = << >>
                    /\ results2' = << >>
                    /\ densityWarningSent' = FALSE
                    /\ UNCHANGED << error, pending >>
    /\ UNCHANGED << strategy, cells_by_type, cfg, cell_connections_by_tag >>
    /\ UNCHANGED stdout
    /\ UNCHANGED config

GrcGocLoop ==
    /\ strategy = "grc_goc"
    /\ pc = "loop"
    /\ k <= Len(order)
    /\ LET golgi == order[k]
           first_granule == cells_by_type.from[1].id
           AA_candidates == grc_goc_AA_candidates(work, golgi, cfg.radius)
           tot_conn == cfg.aa_convergence + cfg.pf_convergence
       IN  \E sorted \in grc_goc_sorted(AA_candidates, work, golgi) :
           \E taken \in {grc_goc_walk(sorted, rolls, work, golgi, cfg.radius, cfg.aa_convergence) :
                             rolls \in [1..Cardinality(AA_candidates) -> Rolls]} :
              LET connectedAA == [i \in DOMAIN taken |-> work[sorted[taken[i]]].id]
                  good_grc == grc_goc_good_grc(cells_by_type.from, Range(connectedAA), first_granule)
                  good_pf == grc_goc_good_pf(good_grc, golgi, cfg.radius)
              IN  \E connected_pf \in grc_goc_connected_pf(good_pf, tot_conn, Len(connectedAA)) :
                     /\ results' = results \o
                            [i \in DOMAIN connectedAA |-> << connectedAA[i], golgi.id >>]
                     /\ results2' = results2 \o
                            [i \in DOMAIN connected_pf |-> << good_grc[connected_pf[i]].id, golgi.id >>]
                     /\ work' = grc_goc_exclude(work, Range(connectedAA), first_granule, Oob(cfg.X))
                     /\ densityWarningSent' =
                            grc_goc_warning_sent(densityWarningSent, good_pf, tot_conn, Len(connectedAA))
                     /\ stdout' =
                            IF grc_goc_warns(densityWarningSent, cfg.verbosity, good_pf, tot_conn,
                                             Len(connectedAA))
                            THEN Append(stdout, << DensityWarning, golgi.id >>)
                            ELSE stdout
    /\ cells_by_type' = written_through(cells_by_type, "from", work')
    /\ k' = k + 1
    /\ UNCHANGED << strategy, cfg, pending, pc, order,
                    cell_connections_by_tag, appends, calls, error >>
    /\ UNCHANGED config

GrcGocFinish ==
    /\ strategy = "grc_goc"
    /\ pc = "loop"
    /\ k > Len(order)
    /\ \E aa_goc \in SortedByTarget(results, Targets(results)) :
          \* the parallel fibers of one golgi cell are in the random order of
          \* np.random.choice already: every order of them is an outcome of the loop
          LET pf_goc == StableByTarget(results2, Targets(results2))
          IN  /\ results' = aa_goc
              /\ results2' = pf_goc
              /\ cell_connections_by_tag' =
                    connect_cells(connect_cells(cell_connections_by_tag, TagAA, aa_goc), TagPF, pf_goc)
    /\ calls' = calls \o << << "connect_cells", TagAA >>, << "connect_cells", TagPF >> >>
    /\ pc' = "idle"
    /\ pending' = pending - 1
    /\ UNCHANGED << strategy, cells_by_type, cfg, order, k, work, appends, error >>
    /\ UNCHANGED << densityWarningSent, stdout >>
    /\ UNCHANGED config

\* The populations split the cells, with room for one granule more than golgi
\* cells; one parallel fiber is asked for per golgi cell
InitGrcGocWith(n, aa_convergences, pf_convergences, verbosities) ==
    \E cells \in SplitPopulations(PlacedX, PlacedX, (MaxCells \div 2) + 1, MaxCells \div 2),
       r \in 1..MaxParam, a \in aa_convergences, f \in pf_convergences, v \in verbosities :
        Idle("grc_goc", cells,
             [NoConfig EXCEPT !.radius = r, !.aa_convergence = a, !.pf_convergence = f,
                              !.verbosity = v], n)

InitGrcGoc(n) == InitGrcGocWith(n, 1..MaxParam, {1}, {1})

NextGrcGoc == GrcGocBegin \/ GrcGocLoop \/ GrcGocFinish

SpecGrcGoc == InitGrcGoc(1) /\ [][NextGrcGoc]_vars

----------------------------------------------------------------------------
(* ConnectomeBCSCPurkinje: from = basket cells, from2 = stellate cells,    *)
(* to = purkinje cells                                                     *)

TagSC == "stellate_to_purkinje"

TagBC == "basket_to_purkinje"

\* sc_matrix: |z difference| < distz and |x difference| < distx
sc_pc_gate(stellate, purkinje, distx, distz) ==
    Abs(stellate.z - purkinje.z) < distz /\ Abs(stellate.x - purkinje.x) < distx

\* bc_matrix: |z difference| < distx and |x difference| < distz
bc_pc_gate(basket, purkinje, distx, distz) ==
    Abs(basket.z - purkinje.z) < distx /\ Abs(basket.x - purkinje.x) < distz

good_sc(stellates, purkinje, distx, distz) ==
    {i \in DOMAIN stellates : sc_pc_gate(stellates[i], purkinje, distx, distz)}

good_bc(baskets, purkinje, distx, distz) ==
    {i \in DOMAIN baskets : bc_pc_gate(baskets[i], purkinje, distx, distz)}

\* The walk over the permuted basket cells: if idx_bc <= conv, a roll above
\* |z difference| / distx and above |x difference| / distz connects
bc_pc_walk(chosen, rolls, baskets, purkinje, distx, distz, conv) ==
    LET pass == [i \in DOMAIN chosen |->
                    /\ RollAboveRatio(rolls[i], Abs(baskets[chosen[i]].z - purkinje.z), distx)
                    /\ RollAboveRatio(rolls[i], Abs(baskets[chosen[i]].x - purkinje.x), distz)]
    IN  CappedWalk(pass, 1, conv, 0)

\* The walk over the permuted stellate cells
sc_pc_walk(chosen, rolls, stellates, purkinje, distx, distz, conv) ==
    LET pass == [i \in DOMAIN chosen |->
                    /\ RollAboveRatio(rolls[i], Abs(stellates[chosen[i]].z - purkinje.z), distz)
                    /\ RollAboveRatio(rolls[i], Abs(stellates[chosen[i]].x - purkinje.x), distx)]
    IN  CappedWalk(pass, 1, conv, 0)

BcScPcBegin ==
    /\ strategy = "bc_sc_pc"
    /\ pc = "idle"
    /\ pending > 0
    /\ IF Len(cells_by_type.from2) = 0 \/ Len(cells_by_type.from) = 0
       THEN \* int(stellates[0, 0]), int(baskets[0, 0]) on an array without rows
            /\ Raise("IndexError")
            /\ UNCHANGED << order, k, results, results2 >>
       ELSE /\ pc' = "loop"
            /\ order' = cells_by_type.to
            /\ k' = 1
            /\ results' = << >>
            /\ results2' = << >>
            /\ UNCHANGED << error, pending >>
    /\ UNCHANGED << strategy, cells_by_type, cfg, work,
                    cell_connections_by_tag, appends, calls >>
    /\ UNCHANGED << densityWarningSent, stdout >>
    /\ UNCHANGED config

BcScPcLoop ==
    /\ strategy = "bc_sc_pc"
    /\ pc = "loop"
    /\ k <= Len(order)
    /\ LET purkinje == order[k]
           baskets == cells_by_type.from
           stellates == cells_by_type.from2
           bc == good_bc(baskets, purkinje, cfg.limit_x, cfg.limit_z)
           sc == good_sc(stellates, purkinje, cfg.limit_x, cfg.limit_z)
       IN  \E chosen_rand_bc \in Perms(bc), chosen_rand_sc \in Perms(sc) :
           \E taken_bc \in {bc_pc_walk(chosen_rand_bc, rolls, baskets, purkinje,
                                       cfg.limit_x, cfg.limit_z, cfg.convergence) :
                               rolls \in [1..Cardinality(bc) -> Rolls]},
              taken_sc \in {sc_pc_walk(chosen_rand_sc, rolls, stellates, purkinje,
                                       cfg.limit_x, cfg.limit_z, cfg.convergence) :
                               rolls \in [1..Cardinality(sc) -> Rolls]} :
              /\ results' = results \o
                    [i \in DOMAIN taken_sc |-> << stellates[chosen_rand_sc[taken_sc[i]]].id, purkinje.id >>]
              /\ results2' = results2 \o
                    [i \in DOMAIN taken_bc |-> << baskets[chosen_rand_bc[taken_bc[i]]].id, purkinje.id >>]
    /\ k' = k + 1
    /\ UNCHANGED << strategy, cells_by_type, cfg, pending, pc, order, work,
                    cell_connections_by_tag, appends, calls, error >>
    /\ UNCHANGED << densityWarningSent, stdout >>
    /\ UNCHANGED config

BcScPcFinish ==
    /\ strategy = "bc_sc_pc"
    /\ pc = "loop"
    /\ k > Len(order)
    /\ cell_connections_by_tag' =
          connect_cells(connect_cells(cell_connections_by_tag, TagSC, results), TagBC, results2)
    /\ calls' = calls \o << << "connect_cells", TagSC >>, << "connect_cells", TagBC >> >>
    /\ pc' = "idle"
    /\ pending' = pending - 1
    /\ UNCHANGED << strategy, cells_by_type, cfg, order, k, work, results, results2,
                    appends, error >>
    /\ UNCHANGED << densityWarningSent, stdout >>
    /\ UNCHANGED config

\* Basket cells, stellate cells and purkinje cells placed in this order
ThreePopulations(pops(_), n, nt) ==
    { [from |-> Population(0, b),
       from2 |-> Population(Len(b), st),
       to |-> Population(Len(b) + Len(st), p)] :
          b \in pops(n), st \in pops(n), p \in pops(nt) }

\* Every purkinje cell is handled on its own: a quarter of the cells are purkinje cells
InitBcScPc(n) ==
    \E cells \in ThreePopulations(PlacedX, MaxCells \div 2, MaxCells \div 4),
       lx \in 1..MaxParam, lz \in 1..MaxParam, c \in 1..MaxParam :
        Idle("bc_sc_pc", cells,
             [NoConfig EXCEPT !.limit_x = lx, !.limit_z = lz, !.convergence = c], n)

NextBcScPc == BcScPcBegin \/ BcScPcLoop \/ BcScPcFinish

SpecBcScPc == InitBcScPc(1) /\ [][NextBcScPc]_vars

----------------------------------------------------------------------------
(* ConnectomeGlomDCN: from = glomeruli, to = DCN cells *)

TagGlomDcn == "glomerulus_to_dcn"

\* np.random.choice(glomeruli[:,0], conv_dcn, replace=False) raises ValueError
\* when it is asked for more elements than there are
glom_dcn_sample_fails(glomeruli, conv_dcn) == conv_dcn > Len(glomeruli)

\* connected_gloms: conv_dcn distinct glomerulus ids in any order
glom_dcn_connected_gloms(glomeruli, conv_dcn) == Choice(Ids(glomeruli), conv_dcn)

GlomDcnBegin ==
    /\ strategy = "glom_dcn"
    /\ pc = "idle"
    /\ pending > 0
    /\ IF Len(cells_by_type.from) = 0
       THEN \* int(glomeruli[0, 0]) on an array without rows
            /\ Raise("IndexError")
            /\ UNCHANGED << order, k, results >>
       ELSE /\ pc' = "loop"
            /\ order' = cells_by_type.to
            /\ k' = 1
            /\ results' = << >>
            /\ UNCHANGED << error, pending >>
    /\ UNCHANGED << strategy, cells_by_type, cfg, work, results2,
                    cell_connections_by_tag, appends, calls >>
    /\ UNCHANGED << densityWarningSent, stdout >>
    /\ UNCHANGED config

GlomDcnLoop ==
    /\ strategy = "glom_dcn"
    /\ pc = "loop"
    /\ k <= Len(order)
    /\ IF glom_dcn_sample_fails(cells_by_type.from, cfg.convergence)
       THEN /\ Raise("ValueError")
            /\ UNCHANGED << results, k >>
       ELSE /\ \E connected_gloms \in glom_dcn_connected_gloms(cells_by_type.from, cfg.convergence) :
                  results' = results \o
                      [i \in DOMAIN connected_gloms |-> << connected_gloms[i], order[k].id >>]
            /\ k' = k + 1
            /\ UNCHANGED << pc, error, pending >>
    /\ UNCHANGED << strategy, cells_by_type, cfg, order, work, results2,
                    cell_connections_by_tag, appends, calls >>
    /\ UNCHANGED << densityWarningSent, stdout >>
    /\ UNCHANGED config

GlomDcnFinish ==
    /\ strategy = "glom_dcn"
    /\ pc = "loop"
    /\ k > Len(order)
    /\ cell_connections_by_tag' = connect_cells(cell_connections_by_tag, TagGlomDcn, results)
    /\ calls' = Append(calls, << "connect_cells", TagGlomDcn >>)
    /\ pc' = "idle"
    /\ pending' = pending - 1
    /\ UNCHANGED << strategy, cells_by_type, cfg, order, k, work, results, results2,
                    appends, error >>
    /\ UNCHANGED << densityWarningSent, stdout >>
    /\ UNCHANGED config

InitGlomDcn(n) ==
    \E cells \in SplitPopulations(PlacedX, PlacedX, MaxCells \div 2, MaxCells \div 2),
       c \in 1..MaxParam :
        Idle("glom_dcn", cells, [NoConfig EXCEPT !.convergence = c], n)

NextGlomDcn == GlomDcnBegin \/ GlomDcnLoop \/ GlomDcnFinish

SpecGlomDcn == InitGlomDcn(1) /\ [][NextGlomDcn]_vars

----------------------------------------------------------------------------
(* ConnectomeGapJunctionsGolgi: from = golgi cells; the cells of another   *)
(* type (to) may have been placed before them                              *)

TagGjGoc == "gap_goc"

\* bool_vector: on each axis the other golgi cell lies within the dendrite
\* radius plus half the axon extension; the halves are doubled away
gj_goc_gate(other, golgi, c) ==
    /\ 2 * Abs(other.x - golgi.x) <= 2 * c.radius + c.axon_x
    /\ 2 * Abs(other.y - golgi.y) <= 2 * c.radius + c.axon_y
    /\ 2 * Abs(other.z - golgi.z) <= 2 * c.radius + c.axon_z

\* good_goc: bool_vector[self_index] = False excludes the cell itself
gj_goc_good_goc(golgicells, self_index, c) ==
    {i \in DOMAIN golgicells :
        i # self_index /\ gj_goc_gate(golgicells[i], golgicells[self_index], c)}

\* gj_goc[start_index:end_index, 0] = i[0]; gj_goc[start_index:end_index, 1] = good_goc
gj_goc_rows(good_goc, golgi_id) ==
    LET rows == AscendingSeq(good_goc)
    IN  [i \in DOMAIN rows |-> << golgi_id, rows[i] - 1 >>]

GjGocBegin ==
    /\ strategy = "gj_goc"
    /\ pc = "idle"
    /\ pending > 0
    /\ IF Len(cells_by_type.from) = 0
       THEN \* int(golgis[0, 0]) on an array without rows
            /\ Raise("IndexError")
            /\ UNCHANGED << order, k, results >>
       ELSE /\ pc' = "loop"
            /\ order' = cells_by_type.from
            /\ k' = 1
            /\ results' = << >>
            /\ UNCHANGED << error, pending >>
    /\ UNCHANGED << strategy, cells_by_type, cfg, work, results2,
                    cell_connections_by_tag, appends, calls >>
    /\ UNCHANGED << densityWarningSent, stdout >>
    /\ UNCHANGED config

GjGocLoop ==
    /\ strategy = "gj_goc"
    /\ pc = "loop"
    /\ k <= Len(order)
    /\ results' = results \o gj_goc_rows(gj_goc_good_goc(order, k, cfg), order[k].id)
    /\ k' = k + 1
    /\ UNCHANGED << strategy, cells_by_type, cfg, pending, pc, order, work, results2,
                    cell_connections_by_tag, appends, calls, error >>
    /\ UNCHANGED << densityWarningSent, stdout >>
    /\ UNCHANGED config

GjGocFinish ==
    /\ strategy = "gj_goc"
    /\ pc = "loop"
    /\ k > Len(order)
    /\ cell_connections_by_tag' = connect_cells(cell_connections_by_tag, TagGjGoc, results)
    /\ calls' = Append(calls, << "connect_cells", TagGjGoc >>)
    /\ pc' = "idle"
    /\ pending' = pending - 1
    /\ UNCHANGED << strategy, cells_by_type, cfg, order, k, work, results, results2,
                    appends, error >>
    /\ UNCHANGED << densityWarningSent, stdout >>
    /\ UNCHANGED config

\* The axon box is a cube of side 1
InitGjGoc(n) ==
    \E cells \in TwoPopulations(PlacedXY, PlacedX, MaxCells),
       r \in 0..MaxParam :
        Idle("gj_goc", cells,
             [NoConfig EXCEPT !.radius = r, !.axon_x = 1, !.axon_y = 1, !.axon_z = 1], n)

NextGjGoc == GjGocBegin \/ GjGocLoop \/ GjGocFinish

SpecGjGoc == InitGjGoc(1) /\ [][NextGjGoc]_vars

----------------------------------------------------------------------------
(* The distance-gated strategies together; a strategy driven twice *)

SpecDistanceGated ==
    (InitGlomGrc(1) \/ InitGlomGoc(1)) /\ [][NextGlomGrc \/ NextGlomGoc]_vars

SpecRerun == InitGlomGrc(2) /\ [][NextGlomGrc]_vars

\* connect() has returned and the driver issues no further call
Returned == pc = "idle" /\ pending = 0 /\ error = "none"

\* The row of a population with the given id
RowOf(rows, id) == CHOOSE i \in DOMAIN rows : rows[i].id = id

HasRow(rows, id) == \E i \in DOMAIN rows : rows[i].id = id

----------------------------------------------------------------------------
(* The strategies with a convergence cap together; the strategies whose    *)
(* edges are checked for their endpoints together                          *)

SpecConvergence ==
    (InitGlomGrc(1) \/ InitBcScPc(1) \/ InitGlomDcn(1))
    /\ [][NextGlomGrc \/ NextBcScPc \/ NextGlomDcn]_vars

SpecIds ==
    (InitGocGlom(1) \/ InitGjGoc(1)) /\ [][NextGocGlom \/ NextGjGoc]_vars

----------------------------------------------------------------------------
(* C1 as claimed: after connect() every to-entity has exactly              *)
(* min(c, number of from-entities passing the gate) incoming edges under   *)
(* the strategy's tag (ConnectomeGlomerulusGranule, ConnectomeBCSCPurkinje *)
(* for each source type, ConnectomeGlomDCN, whose gate every glomerulus    *)
(* passes).                                                                *)
C1_Count(tag, id) == Cardinality(EdgesTo(Stored(tag), id))

C1_Passing(rows, gate(_)) == Cardinality({i \in DOMAIN rows : gate(rows[i])})

C1_ExactlyMin ==
    Returned =>
        \A j \in DOMAIN cells_by_type.to :
            LET t == cells_by_type.to[j]
                c == cfg.convergence
                grc(g) == Dist2(g, t) < cfg.radius * cfg.radius
                sc(g) == Abs(g.z - t.z) < cfg.limit_z /\ Abs(g.x - t.x) < cfg.limit_x
                bc(g) == Abs(g.z - t.z) < cfg.limit_x /\ Abs(g.x - t.x) < cfg.limit_z
                all(g) == TRUE
            IN  /\ strategy = "glom_grc" =>
                      C1_Count(TagGlomGrc, t.id) = Min(c, C1_Passing(cells_by_type.from, grc))
                /\ strategy = "bc_sc_pc" =>
                      /\ C1_Count(TagSC, t.id) = Min(c, C1_Passing(cells_by_type.from2, sc))
                      /\ C1_Count(TagBC, t.id) = Min(c, C1_Passing(cells_by_type.from, bc))
                /\ strategy = "glom_dcn" =>
                      C1_Count(TagGlomDcn, t.id) = Min(c, C1_Passing(cells_by_type.from, all))

(* C1 as amended: every to-entity has at most min(c, number of             *)
(* from-entities passing the gate) incoming edges under the strategy's     *)
(* tag, at every moment; after connect() has returned it has exactly that  *)
(* many in ConnectomeGlomerulusGranule and ConnectomeGlomDCN, whereas in   *)
(* ConnectomeBCSCPurkinje the rejection rolls may leave it fewer.          *)
C1_AtMostMin ==
    \A j \in DOMAIN cells_by_type.to :
        LET t == cells_by_type.to[j]
            c == cfg.convergence
            grc(g) == Dist2(g, t) < cfg.radius * cfg.radius
            sc(g) == Abs(g.z - t.z) < cfg.limit_z /\ Abs(g.x - t.x) < cfg.limit_x
            bc(g) == Abs(g.z - t.z) < cfg.limit_x /\ Abs(g.x - t.x) < cfg.limit_z
            all(g) == TRUE
        IN  /\ strategy = "glom_grc" =>
                  /\ C1_Count(TagGlomGrc, t.id) <= Min(c, C1_Passing(cells_by_type.from, grc))
                  /\ Returned =>
                        C1_Count(TagGlomGrc, t.id) = Min(c, C1_Passing(cells_by_type.from, grc))
            /\ strategy = "bc_sc_pc" =>
                  /\ C1_Count(TagSC, t.id) <= Min(c, C1_Passing(cells_by_type.from2, sc))
                  /\ C1_Count(TagBC, t.id) <= Min(c, C1_Passing(cells_by_type.from, bc))
            /\ strategy = "glom_dcn" =>
                  /\ C1_Count(TagGlomDcn, t.id) <= Min(c, C1_Passing(cells_by_type.from, all))
                  /\ Returned =>
                        C1_Count(TagGlomDcn, t.id) = Min(c, C1_Passing(cells_by_type.from, all))

\* A purkinje cell got as many stellate edges as the cap allows although
\* more stellate cells pass its gate
C1_Witness ==
    /\ strategy = "bc_sc_pc"
    /\ Returned
    /\ \E j \in DOMAIN cells_by_type.to :
          /\ C1_Count(TagSC, cells_by_type.to[j].id) = cfg.convergence
          /\ Cardinality(good_sc(cells_by_type.from2, cells_by_type.to[j],
                                 cfg.limit_x, cfg.limit_z)) > cfg.convergence

----------------------------------------------------------------------------
(* The exclusive strategies together *)

SpecExclusive ==
    (InitGocGlom(1) \/ InitGrcGoc(1)) /\ [][NextGocGlom \/ NextGrcGoc]_vars

----------------------------------------------------------------------------
(* C2: within one connect() run no glomerulus is the endpoint of more than *)
(* one ConnectomeGolgiGlomerulus edge, and no granule is the source of     *)
(* more than one ascending-axon edge of ConnectomeGranuleGolgi.  It holds  *)
(* of the local result arrays at every step and of the stored edge lists.  *)
C2_AtMostOnce(edges, col) ==
    \A i, j \in DOMAIN edges : edges[i][col] = edges[j][col] => i = j

C2_MatchedOnce ==
    /\ strategy = "goc_glom" =>
          C2_AtMostOnce(results, 2) /\ C2_AtMostOnce(Stored(TagGocGlom), 2)
    /\ strategy = "grc_goc" =>
          C2_AtMostOnce(results, 1) /\ C2_AtMostOnce(Stored(TagAA), 1)

\* A second golgi cell had an already matched granule inside its gate and
\* connected another one
C2_Witness ==
    /\ strategy = "grc_goc"
    /\ Returned
    /\ Len(Stored(TagAA)) = 2
    /\ Stored(TagAA)[1][2] # Stored(TagAA)[2][2]
    /\ \A i \in DOMAIN cells_by_type.from, j \in DOMAIN cells_by_type.to :
          grc_goc_gate(cells_by_type.from[i], cells_by_type.to[j], cfg.radius)

----------------------------------------------------------------------------
(* C3: ConnectomeGranuleGolgi.connect() run with fewer granules than golgi *)
(* cells raises, and scaffold.connect_cells is called for neither tag_aa   *)
(* nor tag_pf: no edge is recorded.                                        *)
C3_FewerGranulesRaises ==
    (/\ strategy = "grc_goc"
     /\ Len(cells_by_type.from) < Len(cells_by_type.to))
    => /\ pc \in {"idle", "raised"}
       /\ pending = 0 => pc = "raised" /\ error # "none"
       /\ \A i \in DOMAIN calls : calls[i][1] # "connect_cells"
       /\ TagAA \notin DOMAIN cell_connections_by_tag
       /\ TagPF \notin DOMAIN cell_connections_by_tag

\* The supply test itself raised: there were granules, fewer than golgi cells
C3_Witness ==
    /\ strategy = "grc_goc"
    /\ Len(cells_by_type.from) > 0
    /\ Len(cells_by_type.from) < Len(cells_by_type.to)
    /\ pc = "raised"
    /\ error = "Exception"

----------------------------------------------------------------------------
(* C4: when connect() of ConnectomeGranuleGolgi ends with the supply       *)
(* error, neither connect_cells nor append_dset has been called: the       *)
(* scaffold's stored state equals its state before connect() started.      *)
C4_SupplyErrorWritesNothing ==
    (strategy = "grc_goc" /\ pc = "raised" /\ error = "Exception")
    => /\ calls = << >>
       /\ cell_connections_by_tag = NoStore
       /\ appends = NoStore

----------------------------------------------------------------------------
(* C9: every edge endpoint recorded by a strategy is the id of a cell of   *)
(* the corresponding input population, whatever the first id of the        *)
(* population: the glomerulus endpoint of a ConnectomeGolgiGlomerulus edge *)
(* is the id of a glomerulus, and both endpoints of a                      *)
(* ConnectomeGapJunctionsGolgi edge are ids of golgi cells.                *)
C9_EndpointsAreIds ==
    /\ strategy = "goc_glom" =>
          \A e \in Range(Stored(TagGocGlom)) :
              /\ e[1] \in Ids(cells_by_type.from)
              /\ e[2] \in Ids(cells_by_type.to)
    /\ strategy = "gj_goc" =>
          \A e \in Range(Stored(TagGjGoc)) :
              /\ e[1] \in Ids(cells_by_type.from)
              /\ e[2] \in Ids(cells_by_type.from)

----------------------------------------------------------------------------
(* C5: with an empty from-population and a non-empty to-population,        *)
(* connect() of ConnectomeGlomerulusGranule and ConnectomeGlomerulusGolgi  *)
(* completes without raising and records an empty edge list.               *)
C5_EmptyFromCompletes ==
    (/\ strategy \in {"glom_grc", "glom_goc"}
     /\ Len(cells_by_type.from) = 0
     /\ Len(cells_by_type.to) > 0)
    => /\ error = "none"
       /\ pending = 0 =>
             /\ pc = "idle"
             /\ (IF strategy = "glom_grc" THEN TagGlomGrc ELSE TagGlomGoc)
                    \in DOMAIN cell_connections_by_tag
             /\ Stored(IF strategy = "glom_grc" THEN TagGlomGrc ELSE TagGlomGoc) = << >>

----------------------------------------------------------------------------
(* C7: every edge of ConnectomeGlomerulusGranule joins a glomerulus and a  *)
(* granule of the input populations at most dendrite_length apart; every   *)
(* edge of ConnectomeGlomerulusGolgi joins a glomerulus and a golgi cell   *)
(* at most dendrite_radius apart with the glomerulus not above the golgi   *)
(* soma.  It holds of the local result array and of the stored edge list.  *)
C7_EdgeWithin(e, yGate) ==
    /\ HasRow(cells_by_type.from, e[1])
    /\ HasRow(cells_by_type.to, e[2])
    /\ LET f == cells_by_type.from[RowOf(cells_by_type.from, e[1])]
           t == cells_by_type.to[RowOf(cells_by_type.to, e[2])]
       IN  /\ Dist2(f, t) <= cfg.radius * cfg.radius
           /\ yGate => f.y <= t.y

C7_EdgesSatisfyGate ==
    /\ strategy = "glom_grc" =>
          \A e \in Range(results) \cup Range(Stored(TagGlomGrc)) : C7_EdgeWithin(e, FALSE)
    /\ strategy = "glom_goc" =>
          \A e \in Range(results) \cup Range(Stored(TagGlomGoc)) : C7_EdgeWithin(e, TRUE)

\* Edges were recorded although some from-entity lies outside the gate of
\* some to-entity: the two did not get an edge
C7_Witness ==
    /\ Returned
    /\ strategy = "glom_goc"
    /\ Len(Stored(TagGlomGoc)) >= 2
    /\ \E i \in DOMAIN cells_by_type.from, j \in DOMAIN cells_by_type.to :
          /\ Dist2(cells_by_type.from[i], cells_by_type.to[j]) > cfg.radius * cfg.radius
          /\ << cells_by_type.from[i].id, cells_by_type.to[j].id >> \notin Range(Stored(TagGlomGoc))

----------------------------------------------------------------------------
(* C8: the radius gate is inclusive: a from-entity at a distance exactly   *)
(* equal to the radius is a candidate, so when the cap does not limit the  *)
(* candidates it is connected (ConnectomeGlomerulusGranule,                *)
(* ConnectomeGlomerulusGolgi).                                             *)
C8_InclusiveGate ==
    Returned =>
        \A i \in DOMAIN cells_by_type.from, j \in DOMAIN cells_by_type.to :
            LET f == cells_by_type.from[i]
                t == cells_by_type.to[j]
                within == {h \in DOMAIN cells_by_type.from :
                              Dist2(cells_by_type.from[h], t) <= cfg.radius * cfg.radius}
            IN  /\ (/\ strategy = "glom_grc"
                    /\ Dist2(f, t) = cfg.radius * cfg.radius
                    /\ Cardinality(within) <= cfg.convergence)
                   => << f.id, t.id >> \in Range(Stored(TagGlomGrc))
                /\ (/\ strategy = "glom_goc"
                    /\ Dist2(f, t) = cfg.radius * cfg.radius
                    /\ f.y <= t.y)
                   => << f.id, t.id >> \in Range(Stored(TagGlomGoc))

----------------------------------------------------------------------------
(* C10: after connect() has been called twice on the same instance, the    *)
(* edge list stored under its tag holds the edges of one run only.         *)
C10_RerunDoesNotDuplicate ==
    (strategy = "glom_grc" /\ pc = "idle" /\ pending = 0 /\ error = "none"
        /\ Len(calls) = 2)
    => Stored(TagGlomGrc) = results

----------------------------------------------------------------------------
(* ConnectomePurkinjeDCN: from = purkinje cells, to = DCN cells *)

TagPcDcn == "purkinje_to_dcn"

DsetDcn == "cells/dcn_orientations"

\* dcn_angles: one orientation per DCN cell
get_dcn_rotations(dcn_cells) == [i \in DOMAIN dcn_cells |-> 0]

\* if len(dcn_cells) == 0: return
pc_dcn_returns_early(dcn_cells) == Len(dcn_cells) = 0

\* dcn_dist[0:n,1] for every outcome of np.random.permutation(dist_matrix)
pc_dcn_first(dcn_cells, n) ==
    {SubSeq([i \in DOMAIN p |-> dcn_cells[p[i]].id], 1, n) : p \in Perms(DOMAIN dcn_cells)}

\* A variant that connects every DCN cell, whatever the divergence
pc_dcn_connected_all(dcn_cells, div_pc) ==
    {[i \in DOMAIN dcn_cells |-> dcn_cells[i].id]}

\* connected_dcn: every DCN cell when there are fewer than div_pc of them,
\* else the first div_pc or div_pc - 1 of the permutation, on np.random.rand()
pc_dcn_connected(dcn_cells, div_pc) ==
    IF Len(dcn_cells) < div_pc
    THEN {[i \in DOMAIN dcn_cells |-> dcn_cells[i].id]}
    ELSE pc_dcn_first(dcn_cells, div_pc) \cup pc_dcn_first(dcn_cells, div_pc - 1)

PcDcnBegin ==
    /\ strategy = "pc_dcn"
    /\ pc = "idle"
    /\ pending > 0
    /\ appends' = append_dset(appends, DsetDcn, get_dcn_rotations(cells_by_type.to))
    /\ calls' = Append(calls, << "append_dset", DsetDcn >>)
    /\ IF pc_dcn_returns_early(cells_by_type.to)
       THEN /\ pending' = pending - 1
            /\ UNCHANGED << pc, order, k, results >>
       ELSE /\ pc' = "loop"
            /\ order' = cells_by_type.from
            /\ k' = 1
            /\ results' = << >>
            /\ UNCHANGED pending
    /\ UNCHANGED << strategy, cells_by_type, cfg, work, results2,
                    cell_connections_by_tag, error >>
    /\ UNCHANGED << densityWarningSent, stdout >>
    /\ UNCHANGED config

PcDcnLoop ==
    /\ strategy = "pc_dcn"
    /\ pc = "loop"
    /\ k <= Len(order)
    /\ \E connected_dcn \in pc_dcn_connected(cells_by_type.to, cfg.divergence) :
          results' = results \o
              [i \in DOMAIN connected_dcn |-> << order[k].id, connected_dcn[i] >>]
    /\ k' = k + 1
    /\ UNCHANGED << strategy, cells_by_type, cfg, pending, pc, order, work, results2,
                    cell_connections_by_tag, appends, calls, error >>
    /\ UNCHANGED << densityWarningSent, stdout >>
    /\ UNCHANGED config

PcDcnFinish ==
    /\ strategy = "pc_dcn"
    /\ pc = "loop"
    /\ k > Len(order)
    /\ cell_connections_by_tag' = connect_cells(cell_connections_by_tag, TagPcDcn, results)
    /\ calls' = Append(calls, << "connect_cells", TagPcDcn >>)
    /\ pc' = "idle"
    /\ pending' = pending - 1
    /\ UNCHANGED << strategy, cells_by_type, cfg, order, k, work, results, results2,
                    appends, error >>
    /\ UNCHANGED << densityWarningSent, stdout >>
    /\ UNCHANGED config

InitPcDcn(n) ==
    \E cells \in SplitPopulations(PlacedX, PlacedX, MaxCells \div 2, (MaxCells \div 2) + 1),
       d \in 1..MaxParam :
        Idle("pc_dcn", cells, [NoConfig EXCEPT !.divergence = d], n)

NextPcDcn == PcDcnBegin \/ PcDcnLoop \/ PcDcnFinish

SpecPcDcn == InitPcDcn(1) /\ [][NextPcDcn]_vars

----------------------------------------------------------------------------
(* The strategies with one tag and with two tags together *)

SpecOncePerTag ==
    (InitGlomGoc(1) \/ InitBcScPc(1) \/ InitGrcGoc(1) \/ InitPcDcn(1))
    /\ [][NextGlomGoc \/ NextBcScPc \/ NextGrcGoc \/ NextPcDcn]_vars

ConnectCalls(tag) == {i \in DOMAIN calls : calls[i] = << "connect_cells", tag >>}

----------------------------------------------------------------------------
(* C11: a connect() that has returned without error has called             *)
(* scaffold.connect_cells exactly once for each output tag of its strategy *)
(* (one tag for ConnectomeGlomerulusGolgi and ConnectomePurkinjeDCN, also  *)
(* with an empty DCN population; two for ConnectomeGranuleGolgi and        *)
(* ConnectomeBCSCPurkinje), each time with the complete edge list.         *)
C11_Handed(tag, edges) ==
    /\ Cardinality(ConnectCalls(tag)) = 1
    /\ tag \in DOMAIN cell_connections_by_tag
    /\ Stored(tag) = edges

C11_OncePerTag ==
    Returned =>
        /\ strategy = "glom_goc" => C11_Handed(TagGlomGoc, results)
        /\ strategy = "pc_dcn" => C11_Handed(TagPcDcn, results)
        /\ strategy = "grc_goc" => C11_Handed(TagAA, results) /\ C11_Handed(TagPF, results2)
        /\ strategy = "bc_sc_pc" => C11_Handed(TagSC, results) /\ C11_Handed(TagBC, results2)

----------------------------------------------------------------------------
(* TouchDetector: validate() and connect()                                 *)
(* cfg.section holds the configured attributes (Absent: not configured),   *)
(* cfg.cell_intersection_plane and cfg.compartment_intersection_plane the  *)
(* attributes of the instance, cfg.intersections the compartment           *)
(* intersections of each candidate cell pair.                              *)

TagTouch == "touch"

Absent == "<absent>"

\* planes = ['xyz', 'xy', 'xz', 'yz', 'x', 'y', 'z'] without the single axes
touch_planes_no_single_axis == {"xyz", "xy", "xz", "yz"}

\* planes = ['xyz', 'xy', 'xz', 'yz', 'x', 'y', 'z']
touch_planes == {"xyz", "xy", "xz", "yz", "x", "y", "z"}

\* defaults = {'cell_intersection_plane': 'xyz', 'compartment_intersection_plane': 'xyz'}
touch_defaults == [cell_intersection_plane |-> "xyz", compartment_intersection_plane |-> "xyz"]

\* A default fills in an attribute that was not configured
touch_attr(section, attr) == IF section[attr] = Absent THEN touch_defaults[attr] ELSE section[attr]

\* assert_attr_in(self.__dict__, attr, planes, ...): passes when the attribute
\* is present with one of the values
assert_attr_in(dict, attr, values) == dict[attr] # Absent /\ dict[attr] \in values

\* validate(): both assertions pass
touch_validate(c) ==
    /\ assert_attr_in(c, "cell_intersection_plane", touch_planes)
    /\ assert_attr_in(c, "compartment_intersection_plane", touch_planes)

\* Values a configuration file may give a plane
PlaneValues == {Absent, "xyz", "xy", "xz", "yz", "x", "y", "z", "", "zx", "XYZ"}

\* The instance is initialised: defaults are applied, then validate() runs;
\* a failure is fatal for this strategy, which never connects
TouchValidate ==
    /\ strategy = "touch"
    /\ pc = "constructed"
    /\ LET c == [cfg EXCEPT
                    !.cell_intersection_plane = touch_attr(cfg.section, "cell_intersection_plane"),
                    !.compartment_intersection_plane =
                        touch_attr(cfg.section, "compartment_intersection_plane")]
       IN  /\ cfg' = c
           /\ IF touch_validate(c)
              THEN pc' = "idle" /\ UNCHANGED error
              ELSE pc' = "invalid" /\ error' = "ConfigurationError"
    /\ UNCHANGED << strategy, cells_by_type, pending, order, k, work, results, results2,
                    cell_connections_by_tag, appends, calls >>
    /\ UNCHANGED << densityWarningSent, stdout >>
    /\ UNCHANGED config

\* connect(): intersect_cells() reads from_cell_type, a name that is bound
\* nowhere (the local is from_type): NameError, before any candidate is found
TouchConnect ==
    /\ strategy = "touch"
    /\ pc = "idle"
    /\ pending > 0
    /\ Raise("NameError")
    /\ UNCHANGED << strategy, cells_by_type, cfg, order, k, work, results, results2,
                    cell_connections_by_tag, appends, calls >>
    /\ UNCHANGED << densityWarningSent, stdout >>
    /\ UNCHANGED config

\* The candidate cell pairs: every from-cell with every to-cell
TouchPairs(cells) == {<< cells.from[i].id, cells.to[j].id >> :
                          i \in DOMAIN cells.from, j \in DOMAIN cells.to}

InitTouch(n) ==
    \E cells \in SplitPopulations(PlacedX, PlacedX, 1, MaxCells \div 2),
       cp \in PlaneValues, mp \in PlaneValues :
    \E inter \in [TouchPairs(cells) -> SUBSET (1..2)] :
        /\ strategy = "touch"
        /\ cells_by_type = cells
        /\ cfg = [section |-> [cell_intersection_plane |-> cp,
                               compartment_intersection_plane |-> mp],
                  cell_intersection_plane |-> cp,
                  compartment_intersection_plane |-> mp,
                  intersections |-> inter]
        /\ pending = n
        /\ pc = "constructed"
        /\ order = << >>
        /\ k = 0
        /\ work = << >>
        /\ results = << >>
        /\ results2 = << >>
        /\ cell_connections_by_tag = NoStore
        /\ appends = NoStore
        /\ calls = << >>
        /\ error = "none"
        /\ densityWarningSent = FALSE
        /\ config = ScaffoldConfigInit
        /\ stdout = << >>

NextTouch == TouchValidate \/ TouchConnect

SpecTouch == InitTouch(1) /\ [][NextTouch]_vars

----------------------------------------------------------------------------
(* C12: TouchDetector.validate() succeeds if and only if the cell and the  *)
(* compartment intersection plane are each one of xyz, xy, xz, yz, x, y,   *)
(* z, a plane that is not configured counting as xyz; after a failed       *)
(* validate() no edge is recorded by this strategy.                        *)
C12_Allowed(v) == v \in {Absent, "xyz", "xy", "xz", "yz", "x", "y", "z"}

C12_ValidateIffAllowed ==
    (strategy = "touch" /\ pc # "constructed") =>
        /\ pc # "invalid" <=> /\ C12_Allowed(cfg.section.cell_intersection_plane)
                              /\ C12_Allowed(cfg.section.compartment_intersection_plane)
        /\ cfg.section.cell_intersection_plane = Absent => cfg.cell_intersection_plane = "xyz"
        /\ cfg.section.compartment_intersection_plane = Absent =>
              cfg.compartment_intersection_plane = "xyz"
        /\ pc = "invalid" =>
              /\ error = "ConfigurationError"
              /\ pending > 0
              /\ cell_connections_by_tag = NoStore
              /\ calls = << >>

\* validate() passed on a single axis and a plane that was not configured
C12_Witness ==
    /\ strategy = "touch"
    /\ pc = "idle"
    /\ cfg.section.cell_intersection_plane = "z"
    /\ cfg.section.compartment_intersection_plane = Absent

----------------------------------------------------------------------------
(* C13: once connect() of TouchDetector has ended, there is exactly one    *)
(* edge for each candidate cell pair that has an intersecting compartment  *)
(* pair and none for a candidate pair without; each edge comes with one    *)
(* compartment reference, taken from the intersections of its cell pair.   *)
C13_OneEdgePerTouchingPair ==
    (strategy = "touch" /\ pc \in {"idle", "raised"} /\ pending = 0) =>
        /\ \A pair \in TouchPairs(cells_by_type) :
              Cardinality({i \in DOMAIN Stored(TagTouch) : Stored(TagTouch)[i] = pair})
                  = (IF cfg.intersections[pair] # {} THEN 1 ELSE 0)
        /\ Len(results2) = Len(Stored(TagTouch))
        /\ \A i \in DOMAIN results2 : results2[i] \in cfg.intersections[Stored(TagTouch)[i]]

----------------------------------------------------------------------------
(* The strategies that may under-connect a to-entity, with verbosity off   *)
(* and on, and with fewer and more parallel fibers asked for than there    *)
(* are granules                                                            *)

SpecNotices ==
    (InitGlomGrc(1) \/ InitGrcGocWith(1, {1}, {1, MaxParam + 1}, 0..1))
    /\ [][NextGlomGrc \/ NextGrcGoc]_vars

\* The edges a golgi cell received under both tags of ConnectomeGranuleGolgi
C14_GolgiEdges(id) ==
    Cardinality(EdgesTo(Stored(TagAA), id)) + Cardinality(EdgesTo(Stored(TagPF), id))

\* The golgi cells, in the order of processing, that got fewer edges than
\* aa_convergence + pf_convergence
C14_UnderConnected ==
    {i \in DOMAIN order : C14_GolgiEdges(order[i].id) < cfg.aa_convergence + cfg.pf_convergence}

----------------------------------------------------------------------------
(* C15: connect() of ConnectomeGlomDCN raises no error when there are      *)
(* fewer glomeruli than convergence and then connects every DCN cell to    *)
(* all the glomeruli; with at least convergence glomeruli every DCN cell   *)
(* receives exactly convergence edges; the glomeruli of one DCN cell are   *)
(* pairwise distinct.  Stated for a glomerulus population that is not     *)
(* empty.                                                                  *)
C15_UnderSupplyConnectsAll ==
    (strategy = "glom_dcn" /\ pending = 0 /\ Len(cells_by_type.from) > 0) =>
        /\ error = "none"
        /\ pc = "idle"
        /\ \A j \in DOMAIN cells_by_type.to :
              LET into == EdgesTo(Stored(TagGlomDcn), cells_by_type.to[j].id)
              IN  /\ Cardinality(into) = Min(cfg.convergence, Len(cells_by_type.from))
                  /\ \A a, b \in into :
                        Stored(TagGlomDcn)[a][1] = Stored(TagGlomDcn)[b][1] => a = b
                  /\ \A a \in into : Stored(TagGlomDcn)[a][1] \in Ids(cells_by_type.from)

----------------------------------------------------------------------------
(* ConnectomeAscAxonPurkinje: from = granules, to = purkinje cells *)

TagAaPc == "ascending_axon_to_purkinje"

\* bool_vector: the granule lies in the z range and in the x range of the
\* purkinje cell's dendritic tree; the halves of the extensions are doubled away
aa_pc_gate(granule, purkinje, x_pc, z_pc) ==
    /\ 2 * granule.z >= 2 * purkinje.z - z_pc
    /\ 2 * granule.z <= 2 * purkinje.z + z_pc
    /\ 2 * granule.x >= 2 * purkinje.x - x_pc
    /\ 2 * granule.x <= 2 * purkinje.x + x_pc

\* good_aa: row indexes of the working copy
aa_pc_good_aa(new_granules, purkinje, x_pc, z_pc) ==
    {i \in DOMAIN new_granules : aa_pc_gate(new_granules[i], purkinje, x_pc, z_pc)}

\* matrix: [good_aa + first_granule, purkinje id]
aa_pc_matrix(good_aa, first_granule, purkinje_id) ==
    LET rows == AscendingSeq(good_aa)
    IN  [i \in DOMAIN rows |-> << (rows[i] - 1) + first_granule, purkinje_id >>]

\* A variant that leaves the connected granules in the working copy
aa_pc_exclude_nothing(new_granules, good_aa, oob) == new_granules

\* new_granules[good_aa,:] = OoB_value
aa_pc_exclude(new_granules, good_aa, oob) ==
    [i \in DOMAIN new_granules |-> IF i \in good_aa THEN OobRow(oob) ELSE new_granules[i]]

AaPcBegin ==
    /\ strategy = "aa_pc"
    /\ pc = "idle"
    /\ pending > 0
    /\ IF Len(cells_by_type.from) = 0
       THEN \* int(granules[0, 0]) on an array without rows
            /\ Raise("IndexError")
            /\ UNCHANGED << order, k, results, work >>
       ELSE /\ pc' = "loop"
            /\ work' = cells_by_type.from
            /\ order' = cells_by_type.to
            /\ k' = 1
            /\ results' = << >>
            /\ UNCHANGED << error, pending >>
    /\ UNCHANGED << strategy, cells_by_type, cfg, results2,
                    cell_connections_by_tag, appends, calls, densityWarningSent, stdout >>
    /\ UNCHANGED config

AaPcLoop ==
    /\ strategy = "aa_pc"
    /\ pc = "loop"
    /\ k <= Len(order)
    /\ LET first_granule == cells_by_type.from[1].id
           good_aa == aa_pc_good_aa(work, order[k], cfg.extension_x, cfg.extension_z)
       IN  /\ results' = results \o aa_pc_matrix(good_aa, first_granule, order[k].id)
           /\ work' = aa_pc_exclude(work, good_aa, Oob(cfg.X))
    /\ cells_by_type' = written_through(cells_by_type, "from", work')
    /\ k' = k + 1
    /\ UNCHANGED << strategy, cfg, pending, pc, order, results2,
                    cell_connections_by_tag, appends, calls, error,
                    densityWarningSent, stdout >>
    /\ UNCHANGED config

AaPcFinish ==
    /\ strategy = "aa_pc"
    /\ pc = "loop"
    /\ k > Len(order)
    /\ cell_connections_by_tag' = connect_cells(cell_connections_by_tag, TagAaPc, results)
    /\ calls' = Append(calls, << "connect_cells", TagAaPc >>)
    /\ pc' = "idle"
    /\ pending' = pending - 1
    /\ UNCHANGED << strategy, cells_by_type, cfg, order, k, work, results, results2,
                    appends, error, densityWarningSent, stdout >>
    /\ UNCHANGED config

InitAaPc(n) ==
    \E cells \in SplitPopulations(PlacedXZ, PlacedXZ, MaxCells \div 2, MaxCells \div 2),
       ex \in 1..MaxParam, ez \in 1..MaxParam :
        Idle("aa_pc", cells, [NoConfig EXCEPT !.extension_x = ex, !.extension_z = ez], n)

NextAaPc == AaPcBegin \/ AaPcLoop \/ AaPcFinish

SpecAaPc == InitAaPc(1) /\ [][NextAaPc]_vars

----------------------------------------------------------------------------
(* The strategies that mark consumed candidates out of bounds *)

SpecFrame ==
    (InitGocGlom(1) \/ InitGrcGoc(1) \/ InitAaPc(1))
    /\ [][NextGocGlom \/ NextGrcGoc \/ NextAaPc]_vars

HoldsOob(rows) == \E i \in DOMAIN rows : rows[i] = OobRow(Oob(cfg.X))

----------------------------------------------------------------------------
(* C16: no step of connect() changes the scaffold's population arrays      *)
(* (ids, coordinates, row order), and the out-of-bounds sentinel of        *)
(* ConnectomeGolgiGlomerulus, ConnectomeGranuleGolgi and                   *)
(* ConnectomeAscAxonPurkinje is never found in them: it is written to the  *)
(* private working copy only.                                              *)
C16_PopulationsReadOnly ==
    /\ [][cells_by_type' = cells_by_type]_vars
    /\ [](~HoldsOob(cells_by_type.from) /\ ~HoldsOob(cells_by_type.to))

\* A connect() has returned that marked a row of its working copy
C16_Witness ==
    /\ Returned
    /\ strategy \in {"goc_glom", "grc_goc", "aa_pc"}
    /\ HoldsOob(work)
    /\ Len(work) >= 2

----------------------------------------------------------------------------
(* ConnectomeGolgiGranule: from = golgi cells; composes the stored edge    *)
(* sets glomerulus_to_granule and golgi_to_glomerulus                      *)

TagGocGrc == "golgi_to_granule"

\* cell_connections_by_tag[tag] can be read: the tag has been recorded
has_tag(store, tag) == tag \in DOMAIN store

\* A variant that only misses the first tag it reads
goc_grc_missing_tag_first_only(store) == ~has_tag(store, TagGlomGrc)

\* glom_grc = cell_connections_by_tag['glomerulus_to_granule'] or
\* goc_glom = cell_connections_by_tag['golgi_to_glomerulus'] fails
goc_grc_missing_tag(store) == ~has_tag(store, TagGlomGrc) \/ ~has_tag(store, TagGocGlom)

\* A variant that takes the glomeruli of every golgi cell
goc_grc_connected_glomeruli_of_any(goc_glom, golgi_id) ==
    {goc_glom[i][2] : i \in DOMAIN goc_glom}

\* connected_glomeruli = goc_glom[goc_glom[:, 0] == golgi_id, 1]
goc_grc_connected_glomeruli(goc_glom, golgi_id) ==
    {goc_glom[i][2] : i \in {j \in DOMAIN goc_glom : goc_glom[j][1] = golgi_id}}

RECURSIVE goc_grc_via_gloms(_, _)
\* connected_granules_via_gloms: row[1] of the rows of glom_grc, in their
\* order, whose row[0] is one of the connected glomeruli
goc_grc_via_gloms(glom_grc, connected_glomeruli) ==
    IF glom_grc = << >> THEN << >>
    ELSE (IF Head(glom_grc)[1] \in connected_glomeruli THEN << Head(glom_grc)[2] >> ELSE << >>)
             \o goc_grc_via_gloms(Tail(glom_grc), connected_glomeruli)

GocGrcBegin ==
    /\ strategy = "goc_grc"
    /\ pc = "idle"
    /\ pending > 0
    /\ IF goc_grc_missing_tag(cell_connections_by_tag)
       THEN /\ Raise("KeyError")
            /\ UNCHANGED << order, k, results >>
       ELSE /\ pc' = "loop"
            /\ order' = cells_by_type.from
            /\ k' = 1
            /\ results' = << >>
            /\ UNCHANGED << error, pending >>
    /\ UNCHANGED << strategy, cells_by_type, cfg, work, results2,
                    cell_connections_by_tag, appends, calls, densityWarningSent, stdout >>
    /\ UNCHANGED config

GocGrcLoop ==
    /\ strategy = "goc_grc"
    /\ pc = "loop"
    /\ k <= Len(order)
    /\ LET golgi_id == order[k].id
           connected_glomeruli == goc_grc_connected_glomeruli(Stored(TagGocGlom), golgi_id)
           connected_granules_via_gloms == goc_grc_via_gloms(Stored(TagGlomGrc), connected_glomeruli)
       IN  results' = results \o
               [i \in DOMAIN connected_granules_via_gloms |->
                   << golgi_id, connected_granules_via_gloms[i] >>]
    /\ k' = k + 1
    /\ UNCHANGED << strategy, cells_by_type, cfg, pending, pc, order, work, results2,
                    cell_connections_by_tag, appends, calls, error,
                    densityWarningSent, stdout >>
    /\ UNCHANGED config

GocGrcFinish ==
    /\ strategy = "goc_grc"
    /\ pc = "loop"
    /\ k > Len(order)
    /\ cell_connections_by_tag' = connect_cells(cell_connections_by_tag, TagGocGrc, results)
    /\ calls' = Append(calls, << "connect_cells", TagGocGrc >>)
    /\ pc' = "idle"
    /\ pending' = pending - 1
    /\ UNCHANGED << strategy, cells_by_type, cfg, order, k, work, results, results2,
                    appends, error, densityWarningSent, stdout >>
    /\ UNCHANGED config

\* Edge sets that earlier strategies may have stored: golgi cells come
\* first, then as many glomeruli, then as many granules
StoredEdgeSets(n) ==
    LET golgi_ids == 0..(n - 1)
        glom_ids == n..(2 * n - 1)
        granule_ids == (2 * n)..(3 * n - 1)
        goc_glom == SeqsUpTo(golgi_ids \X glom_ids, 2)
        glom_grc == SeqsUpTo(glom_ids \X granule_ids, 2)
    IN  {NoStore}
        \cup {connect_cells(NoStore, TagGlomGrc, a) : a \in glom_grc}
        \cup {connect_cells(NoStore, TagGocGlom, b) : b \in goc_glom}
        \cup {connect_cells(connect_cells(NoStore, TagGlomGrc, a), TagGocGlom, b) :
                  a \in glom_grc, b \in goc_glom}

InitGocGrc(n) ==
    \E golgis \in PlacedX(MaxCells \div 2), store \in StoredEdgeSets(MaxCells \div 2) :
        /\ strategy = "goc_grc"
        /\ cells_by_type = [from |-> Population(0, golgis), from2 |-> NoCells, to |-> NoCells]
        /\ cfg = NoConfig
        /\ pending = n
        /\ pc = "idle"
        /\ order = << >>
        /\ k = 0
        /\ work = << >>
        /\ results = << >>
        /\ results2 = << >>
        /\ cell_connections_by_tag = store
        /\ appends = NoStore
        /\ calls = << >>
        /\ error = "none"
        /\ densityWarningSent = FALSE
        /\ config = ScaffoldConfigInit
        /\ stdout = << >>

NextGocGrc == GocGrcBegin \/ GocGrcLoop \/ GocGrcFinish

SpecGocGrc == InitGocGrc(1) /\ [][NextGocGrc]_vars

----------------------------------------------------------------------------
(* C17: ConnectomeGolgiGranule.connect() started with glomerulus_to_granule *)
(* or golgi_to_glomerulus missing from cell_connections_by_tag raises, it  *)
(* never calls scaffold.connect_cells, and no step of it changes the       *)
(* stored edge sets.                                                       *)
C17_TagMissing ==
    /\ strategy = "goc_grc"
    /\ (TagGlomGrc \notin DOMAIN cell_connections_by_tag
        \/ TagGocGlom \notin DOMAIN cell_connections_by_tag)

C17_MissingTagRaisesFirst ==
    /\ [](C17_TagMissing =>
            /\ calls = << >>
            /\ TagGocGrc \notin DOMAIN cell_connections_by_tag
            /\ pc \in {"idle", "raised"}
            /\ pending = 0 => pc = "raised" /\ error = "KeyError")
    /\ [][C17_TagMissing => cell_connections_by_tag' = cell_connections_by_tag]_vars

\* connect() raised on the second tag it reads, the first one being stored
C17_Witness ==
    /\ strategy = "goc_grc"
    /\ pc = "raised"
    /\ error = "KeyError"
    /\ TagGlomGrc \in DOMAIN cell_connections_by_tag
    /\ Stored(TagGlomGrc) # << >>
    /\ Len(cells_by_type.from) > 0

----------------------------------------------------------------------------
(* ConnectomeGolgiGlomerulus on cells that differ in x and y, together     *)
(* with ConnectomeGranuleGolgi                                             *)

InitGocGlomXY(n) ==
    \E cells \in SplitPopulations(PlacedXY, PlacedXY, MaxCells \div 2, MaxCells \div 2),
       d \in 1..MaxParam, t \in 1..MaxParam, r \in 0..1 :
        Idle("goc_glom", cells,
             [NoConfig EXCEPT !.divergence = d, !.thickness = t, !.r_glom = r,
                              !.axon_x = 1, !.axon_y = 1, !.axon_z = 1], n)

SpecCloseness ==
    (InitGocGlomXY(1) \/ InitGrcGoc(1)) /\ [][NextGocGlom \/ NextGrcGoc]_vars

----------------------------------------------------------------------------
(* C18: for every candidate that passes the gate of the to-entity being    *)
(* processed, the rejection threshold lies in [0,1]: the xy distance over  *)
(* the layer thickness in ConnectomeGolgiGlomerulus, the xz distance over  *)
(* dendrite_radius in ConnectomeGranuleGolgi (a non-negative distance d    *)
(* over a positive scale s is at most 1 exactly when d * d <= s * s).      *)
C18_ClosenessInUnitInterval ==
    (pc = "loop" /\ k <= Len(order)) =>
        /\ strategy = "goc_glom" =>
              \A i \in goc_glom_good_gloms(cells_by_type.to, order[k], cfg) :
                  Dist2XY(work[i], order[k]) <= cfg.thickness * cfg.thickness
        /\ strategy = "grc_goc" =>
              \A i \in grc_goc_AA_candidates(work, order[k], cfg.radius) :
                  Dist2XZ(work[i], order[k]) <= cfg.radius * cfg.radius

----------------------------------------------------------------------------
(* C20: ConnectomeGlomerulusGranule selects the closest candidates: once   *)
(* connect() has ended, every granule with k glomeruli passing the         *)
(* distance gate has exactly min(convergence, k) edges, their sources are  *)
(* pairwise distinct                                                       *)
(* glomeruli that pass the gate, and when k > convergence no unselected    *)
(* candidate is strictly closer to the granule than a selected one.        *)
C20_Candidates(t) ==
    {i \in DOMAIN cells_by_type.from : Dist2(cells_by_type.from[i], t) < cfg.radius * cfg.radius}

C20_Selected(t) ==
    {i \in DOMAIN cells_by_type.from :
        << cells_by_type.from[i].id, t.id >> \in Range(Stored(TagGlomGrc))}

C20_ClosestSelected ==
    (strategy = "glom_grc" /\ pending = 0 /\ pc \in {"idle", "raised"}) =>
        \A j \in DOMAIN cells_by_type.to :
            LET t == cells_by_type.to[j]
                edges == EdgesTo(Stored(TagGlomGrc), t.id)
                cand == C20_Candidates(t)
                sel == C20_Selected(t)
            IN  /\ Cardinality(edges) = Min(cfg.convergence, Cardinality(cand))
                /\ \A a, b \in edges :
                      a # b => Stored(TagGlomGrc)[a][1] # Stored(TagGlomGrc)[b][1]
                /\ \A a \in edges : HasRow(cells_by_type.from, Stored(TagGlomGrc)[a][1])
                /\ sel \subseteq cand
                /\ Cardinality(cand) > cfg.convergence =>
                      \A u \in cand \ sel, v \in sel :
                          ~(Dist2(cells_by_type.from[u], t) < Dist2(cells_by_type.from[v], t))

\* A granule had more candidates than the cap, and a candidate of an earlier
\* row was left out for a closer one of a later row
C20_Witness ==
    /\ strategy = "glom_grc"
    /\ Returned
    /\ \E j \in DOMAIN cells_by_type.to :
          LET t == cells_by_type.to[j]
          IN  /\ Cardinality(C20_Candidates(t)) > cfg.convergence
              /\ \E u \in C20_Candidates(t) \ C20_Selected(t), v \in C20_Selected(t) :
                    /\ u < v
                    /\ Dist2(cells_by_type.from[v], t) < Dist2(cells_by_type.from[u], t)

----------------------------------------------------------------------------
(* C21: ConnectomeGolgiGranule connects each golgi cell to exactly the     *)
(* granule cells it shares a glomerulus with: every edge it stores starts  *)
(* at a golgi cell of the population, and for every such golgi cell g and  *)
(* every granule r the number of stored edges (g, r) is the number of      *)
(* glomerulus_to_granule rows (m, r) whose glomerulus m has a              *)
(* golgi_to_glomerulus row (g, m); so (g, r) is an edge if and only if     *)
(* there is such a glomerulus.                                             *)
C21_Rows(edges, e) == {i \in DOMAIN edges : edges[i] = e}

C21_Shared(g, r) ==
    {i \in DOMAIN Stored(TagGlomGrc) :
        /\ Stored(TagGlomGrc)[i][2] = r
        /\ << g, Stored(TagGlomGrc)[i][1] >> \in Range(Stored(TagGocGlom))}

----------------------------------------------------------------------------
(* C22: ConnectomePurkinjeDCN with a non-empty DCN population of n cells   *)
(* and divergence d: no Purkinje cell ever has more than d edges, the      *)
(* targets of a Purkinje cell are pairwise distinct DCN cells, and after   *)
(* connect() every Purkinje cell has an edge to each DCN cell if n < d,    *)
(* and d or d - 1 edges if n >= d.                                         *)
C22_Targets(edges, id) == {edges[i][2] : i \in EdgesFrom(edges, id)}

C22_Bounded(edges) ==
    \A i \in DOMAIN cells_by_type.from :
        LET id == cells_by_type.from[i].id
        IN  /\ Cardinality(EdgesFrom(edges, id)) <= cfg.divergence
            /\ Cardinality(C22_Targets(edges, id)) = Cardinality(EdgesFrom(edges, id))
            /\ C22_Targets(edges, id) \subseteq Ids(cells_by_type.to)

C22_DivergenceOrOneLess ==
    (strategy = "pc_dcn" /\ Len(cells_by_type.to) > 0) =>
        /\ C22_Bounded(results)
        /\ C22_Bounded(Stored(TagPcDcn))
        /\ Returned =>
              \A i \in DOMAIN cells_by_type.from :
                  LET id == cells_by_type.from[i].id
                      n == Len(cells_by_type.to)
                      edges == EdgesFrom(Stored(TagPcDcn), id)
                  IN  IF n < cfg.divergence
                      THEN /\ Cardinality(edges) = n
                           /\ C22_Targets(Stored(TagPcDcn), id) = Ids(cells_by_type.to)
                      ELSE Cardinality(edges) \in {cfg.divergence, cfg.divergence - 1}

\* With more DCN cells than the divergence, one Purkinje cell got d edges
\* and another d - 1
C22_Witness ==
    /\ strategy = "pc_dcn"
    /\ Returned
    /\ Len(cells_by_type.to) > cfg.divergence
    /\ \E i, j \in DOMAIN cells_by_type.from :
          /\ Cardinality(EdgesFrom(Stored(TagPcDcn), cells_by_type.from[i].id)) = cfg.divergence
          /\ Cardinality(EdgesFrom(Stored(TagPcDcn), cells_by_type.from[j].id)) = cfg.divergence - 1

----------------------------------------------------------------------------
(* C23: in ConnectomeAscAxonPurkinje, when the value that marks a          *)
(* connected granule lies outside the x/z box of every Purkinje cell (as   *)
(* it does when the boxes lie inside the simulation volume), after         *)
(* connect() no granule is the source of more than one edge, a granule     *)
(* whose (x, z) lies inside the box of some Purkinje cell has its one edge *)
(* to the first such Purkinje cell in population order, and a granule      *)
(* inside no box has no edge.                                              *)
C23_InBox(granule, purkinje) ==
    /\ Abs(2 * (granule.x - purkinje.x)) <= cfg.extension_x
    /\ Abs(2 * (granule.z - purkinje.z)) <= cfg.extension_z

C23_Boxes(granule) == {j \in DOMAIN cells_by_type.to : C23_InBox(granule, cells_by_type.to[j])}

C23_SentinelOutside ==
    \A j \in DOMAIN cells_by_type.to : ~C23_InBox(OobRow(Oob(cfg.X)), cells_by_type.to[j])

C23_FirstPurkinjeOnly ==
    (strategy = "aa_pc" /\ Returned /\ C23_SentinelOutside) =>
        \A i \in DOMAIN cells_by_type.from :
            LET granule == cells_by_type.from[i]
                edges == EdgesFrom(Stored(TagAaPc), granule.id)
                boxes == C23_Boxes(granule)
            IN  IF boxes = {}
                THEN edges = {}
                ELSE /\ Cardinality(edges) = 1
                     /\ \A e \in edges :
                           LET first == CHOOSE j \in boxes : \A h \in boxes : j <= h
                           IN  Stored(TagAaPc)[e][2] = cells_by_type.to[first].id

\* A granule inside the boxes of two Purkinje cells, and one inside no box
C23_Witness ==
    /\ strategy = "aa_pc"
    /\ Returned
    /\ C23_SentinelOutside
    /\ \E i, h \in DOMAIN cells_by_type.from :
          /\ Cardinality(C23_Boxes(cells_by_type.from[i])) = 2
          /\ Cardinality(EdgesFrom(Stored(TagAaPc), cells_by_type.from[i].id)) = 1
          /\ C23_Boxes(cells_by_type.from[h]) = {}

----------------------------------------------------------------------------
(* C24: in ConnectomeGranuleGolgi no golgi cell ever has more than         *)
(* aa_convergence ascending-axon edges, and after connect(), for every     *)
(* golgi cell, the ascending-axon edges plus the parallel-fiber edges      *)
(* number min(aa_convergence + pf_convergence, ascending-axon edges +      *)
(* granules not connected to it by their ascending axon whose x lies       *)
(* within dendrite_radius of its x), and no granule is connected to it     *)
(* under both tags.                                                        *)
C24_Sources(edges, id) == {edges[i][1] : i \in EdgesTo(edges, id)}

C24_Available(golgi) ==
    {i \in DOMAIN cells_by_type.from :
        /\ cells_by_type.from[i].id \notin C24_Sources(Stored(TagAA), golgi.id)
        /\ Abs(cells_by_type.from[i].x - golgi.x) <= cfg.radius}

----------------------------------------------------------------------------
(* C25: ConnectomeGranuleGolgi.connect() on a non-empty granule population *)
(* ends with its supply error if and only if there are strictly fewer      *)
(* granules than golgi cells; with as many granules as golgi cells it does *)
(* not raise and goes on to the matching.                                  *)
C25_SupplyErrorIffStrictlyFewer ==
    (strategy = "grc_goc" /\ pending = 0 /\ Len(cells_by_type.from) > 0) =>
        (error = "Exception" <=> Len(cells_by_type.from) < Len(cells_by_type.to))

----------------------------------------------------------------------------
(* ConnectomeGapJunctions: from = the cells of one type *)

TagGj == "gap_junctions"

\* constraint_vector: |z difference| < d_z, |z difference| != 0 and the
\* distance in the xy plane < d_xy, for row j seen from row i
gj_gate(cells, i, j, d_xy, d_z) ==
    /\ Abs(cells[j].z - cells[i].z) < d_z
    /\ Abs(cells[j].z - cells[i].z) # 0
    /\ Dist2XY(cells[j], cells[i]) < d_xy * d_xy

\* good_sc: the rows that satisfy the distance condition
gj_good_sc(cells, i, d_xy, d_z) ==
    {j \in DOMAIN cells : gj_gate(cells, i, j, d_xy, d_z)}

\* The walk over the permuted candidates: if idx <= dc_gj, a roll above
\* |z difference| / d_z and above the xy distance / d_xy connects
gj_walk(chosen, rolls, cells, i, d_xy, d_z, dc_gj) ==
    LET pass == [n \in DOMAIN chosen |->
                    /\ RollAboveRatio(rolls[n], Abs(cells[chosen[n]].z - cells[i].z), d_z)
                    /\ RollAbove(rolls[n], Dist2XY(cells[chosen[n]], cells[i]), d_xy)]
    IN  CappedWalk(pass, 1, dc_gj, 0)

GjBegin ==
    /\ strategy = "gj"
    /\ pc = "idle"
    /\ pending > 0
    /\ IF Len(cells_by_type.from) = 0
       THEN \* int(from_cells[0, 0]) on an array without rows
            /\ Raise("IndexError")
            /\ UNCHANGED << order, k, results >>
       ELSE /\ pc' = "loop"
            /\ order' = cells_by_type.from
            /\ k' = 1
            /\ results' = << >>
            /\ UNCHANGED << error, pending >>
    /\ UNCHANGED << strategy, cells_by_type, cfg, work, results2,
                    cell_connections_by_tag, appends, calls, densityWarningSent, stdout >>
    /\ UNCHANGED config

GjLoop ==
    /\ strategy = "gj"
    /\ pc = "loop"
    /\ k <= Len(order)
    /\ LET candidates == gj_good_sc(order, k, cfg.limit_xy, cfg.limit_z)
       IN  \E chosen_rand \in Perms(candidates) :
           \E taken \in {gj_walk(chosen_rand, rolls, order, k, cfg.limit_xy, cfg.limit_z,
                                 cfg.divergence) :
                             rolls \in [1..Cardinality(candidates) -> Rolls]} :
              results' = results \o
                  [n \in DOMAIN taken |-> << order[k].id, order[chosen_rand[taken[n]]].id >>]
    /\ k' = k + 1
    /\ UNCHANGED << strategy, cells_by_type, cfg, pending, pc, order, work, results2,
                    cell_connections_by_tag, appends, calls, error,
                    densityWarningSent, stdout >>
    /\ UNCHANGED config

GjFinish ==
    /\ strategy = "gj"
    /\ pc = "loop"
    /\ k > Len(order)
    /\ cell_connections_by_tag' = connect_cells(cell_connections_by_tag, TagGj, results)
    /\ calls' = Append(calls, << "connect_cells", TagGj >>)
    /\ pc' = "idle"
    /\ pending' = pending - 1
    /\ UNCHANGED << strategy, cells_by_type, cfg, order, k, work, results, results2,
                    appends, error, densityWarningSent, stdout >>
    /\ UNCHANGED config

\* One population, placed after `first` cells of other types
InitGj(n) ==
    \E pts \in PlacedXZ(MaxCells - 1), first \in 0..1,
       lxy \in 1..MaxParam, lz \in 1..MaxParam, d \in 1..MaxParam :
        Idle("gj", [from |-> Population(first, pts), from2 |-> NoCells, to |-> NoCells],
             [NoConfig EXCEPT !.limit_xy = lxy, !.limit_z = lz, !.divergence = d], n)

NextGj == GjBegin \/ GjLoop \/ GjFinish

SpecGj == InitGj(1) /\ [][NextGj]_vars

----------------------------------------------------------------------------
(* The strategies that accept candidates on a random roll, up to a cap *)

SpecCapped ==
    (InitBcScPc(1) \/ InitGocGlom(1) \/ InitGj(1))
    /\ [][NextBcScPc \/ NextGocGlom \/ NextGj]_vars

----------------------------------------------------------------------------
(* C26: the rejection-sampling loops never exceed their cap, whatever the  *)
(* rolls: ConnectomeBCSCPurkinje has at most convergence stellate edges    *)
(* and at most convergence basket edges per Purkinje cell,                 *)
(* ConnectomeGolgiGlomerulus at most divergence edges per golgi cell and   *)
(* ConnectomeGapJunctions at most divergence edges per cell, so the array  *)
(* being filled never holds more than n_cells * cap rows.                  *)
C26_PerTarget(edges, rows, cap) ==
    /\ \A i \in DOMAIN rows : Cardinality(EdgesTo(edges, rows[i].id)) <= cap
    /\ Len(edges) <= Len(rows) * cap

C26_PerSource(edges, rows, cap) ==
    /\ \A i \in DOMAIN rows : Cardinality(EdgesFrom(edges, rows[i].id)) <= cap
    /\ Len(edges) <= Len(rows) * cap

C26_CapNeverExceeded ==
    /\ strategy = "bc_sc_pc" =>
          /\ C26_PerTarget(results, cells_by_type.to, cfg.convergence)
          /\ C26_PerTarget(results2, cells_by_type.to, cfg.convergence)
          /\ C26_PerTarget(Stored(TagSC), cells_by_type.to, cfg.convergence)
          /\ C26_PerTarget(Stored(TagBC), cells_by_type.to, cfg.convergence)
    /\ strategy = "goc_glom" =>
          /\ C26_PerSource(results, cells_by_type.from, cfg.divergence)
          /\ C26_PerSource(Stored(TagGocGlom), cells_by_type.from, cfg.divergence)
    /\ strategy = "gj" =>
          /\ C26_PerSource(results, cells_by_type.from, cfg.divergence)
          /\ C26_PerSource(Stored(TagGj), cells_by_type.from, cfg.divergence)

\* A cell reached its cap although more candidates passed its gate
C26_Witness ==
    /\ Returned
    /\ \/ /\ strategy = "gj"
          /\ \E i \in DOMAIN cells_by_type.from :
                /\ Cardinality(EdgesFrom(Stored(TagGj), cells_by_type.from[i].id)) = cfg.divergence
                /\ Cardinality(gj_good_sc(cells_by_type.from, i, cfg.limit_xy, cfg.limit_z))
                       > cfg.divergence
       \/ /\ strategy = "bc_sc_pc"
          /\ \E j \in DOMAIN cells_by_type.to :
                /\ Cardinality(EdgesTo(Stored(TagBC), cells_by_type.to[j].id)) = cfg.convergence
                /\ Cardinality(good_bc(cells_by_type.from, cells_by_type.to[j],
                                       cfg.limit_x, cfg.limit_z)) > cfg.convergence

----------------------------------------------------------------------------
(* The strategies that connect the cells of one population to each other *)

SpecSamePopulation ==
    (InitGj(1) \/ InitGjGoc(1)) /\ [][NextGj \/ NextGjGoc]_vars

----------------------------------------------------------------------------
(* C27: the same-population strategies never connect a cell to itself and  *)
(* exclude nothing but the cell itself on identity grounds: no edge of     *)
(* ConnectomeGapJunctions or ConnectomeGapJunctionsGolgi has the same cell *)
(* at both ends, and in ConnectomeGapJunctions every other cell within     *)
(* limit_xy in the xy plane and within limit_z along z is a candidate of   *)
(* the cell being handled, also when the two have the same z.              *)
C27_NoSelfEdge(edges) == \A e \in Range(edges) : e[1] # e[2]

C27_WithinLimits(a, b) ==
    /\ Abs(a.z - b.z) < cfg.limit_z
    /\ Dist2XY(a, b) < cfg.limit_xy * cfg.limit_xy

C27_OnlySelfExcluded ==
    /\ strategy = "gj" =>
          /\ C27_NoSelfEdge(results)
          /\ C27_NoSelfEdge(Stored(TagGj))
          /\ (pc = "loop" /\ k \in DOMAIN order) =>
                \A j \in DOMAIN order :
                    (j # k /\ C27_WithinLimits(order[j], order[k]))
                        => j \in gj_good_sc(order, k, cfg.limit_xy, cfg.limit_z)
    /\ strategy = "gj_goc" =>
          /\ C27_NoSelfEdge(results)
          /\ C27_NoSelfEdge(Stored(TagGjGoc))

----------------------------------------------------------------------------
(* C28: in ConnectomeBCSCPurkinje the basket-cell gate and the             *)
(* stellate-cell gate apply the limits to the same axes: every recorded    *)
(* basket-to-Purkinje edge and every recorded stellate-to-Purkinje edge    *)
(* joins cells with |x difference| < limit_x and |z difference| < limit_z. *)
C28_Within(rows, e) ==
    /\ HasRow(rows, e[1])
    /\ HasRow(cells_by_type.to, e[2])
    /\ LET f == rows[RowOf(rows, e[1])]
           t == cells_by_type.to[RowOf(cells_by_type.to, e[2])]
       IN  Abs(f.x - t.x) < cfg.limit_x /\ Abs(f.z - t.z) < cfg.limit_z

C28_SameAxes ==
    strategy = "bc_sc_pc" =>
        /\ \A e \in Range(results) \cup Range(Stored(TagSC)) : C28_Within(cells_by_type.from2, e)
        /\ \A e \in Range(results2) \cup Range(Stored(TagBC)) : C28_Within(cells_by_type.from, e)

----------------------------------------------------------------------------
(* ScaffoldConfig: the layer registry (src/scaffold/config.py) *)

\* A Layer object; the thickness tells two layers of one name apart
Layer(name, thickness) == [name |-> name, thickness |-> thickness]

LayerNames == {"granular", "purkinje", "molecular"}

LayerObjects == {Layer(n, t) : n \in LayerNames, t \in 1..2}

\* What a call gives back: a value, or the exception it raised
Returns(v) == [raised |-> "none", value |-> v]

Raises(e) == [raised |-> e, value |-> "none"]

NotFound == "Exception: not found"

InvalidArguments == "Exception: invalid arguments"

\* self.Layers[layer.name] = layer; self.LayerIDs.append(layer.name)
addLayer(c, layer) ==
    [c EXCEPT !.Layers = DictSet(@, layer.name, layer),
              !.LayerIDs = Append(@, layer.name)]

\* getLayer(name='', id=-1); list(...)[id] beyond the end is an IndexError
getLayer(c, name, id) ==
    IF id > -1
    THEN IF Len(c.LayerIDs) <= id
         THEN Raises(NotFound)
         ELSE IF id + 1 \in DOMAIN DictValues(c.Layers)
              THEN Returns(DictValues(c.Layers)[id + 1])
              ELSE Raises("IndexError")
    ELSE IF name # ""
         THEN IF ~DictHas(c.Layers, name)
              THEN Raises(NotFound)
              ELSE Returns(DictGet(c.Layers, name))
         ELSE Raises(InvalidArguments)

\* self.LayerIDs.index(name): the first position of the name, from 0
getLayerID(c, name) ==
    IF \E i \in DOMAIN c.LayerIDs : c.LayerIDs[i] = name
    THEN Returns((CHOOSE i \in DOMAIN c.LayerIDs :
                    /\ c.LayerIDs[i] = name
                    /\ \A j \in DOMAIN c.LayerIDs : c.LayerIDs[j] = name => i <= j) - 1)
    ELSE Raises("ValueError")

AddLayer ==
    /\ strategy = "config"
    /\ Len(config.LayerIDs) < MaxLayers
    /\ \E layer \in LayerObjects : config' = addLayer(config, layer)
    /\ UNCHANGED << strategy, cells_by_type, cfg, pending, pc, order, k, work, results,
                    results2, cell_connections_by_tag, appends, calls, error,
                    densityWarningSent, stdout >>

InitLayers ==
    Idle("config", [from |-> NoCells, from2 |-> NoCells, to |-> NoCells], NoConfig, 0)

NextLayers == AddLayer

SpecLayers == InitLayers /\ [][NextLayers]_vars

----------------------------------------------------------------------------
(* C29: after any sequence of addLayer calls the id index and the name map *)
(* agree: for every registered layer name n, getLayer(id=getLayerID(n))    *)
(* returns the layer named n, the one getLayer(name=n) returns; getLayer   *)
(* with an id past the registered layers or with an unknown name raises    *)
(* the not-found Exception, and with neither argument the                  *)
(* invalid-arguments Exception.                                            *)
C29_Registered == {config.LayerIDs[i] : i \in DOMAIN config.LayerIDs}

C29_IndexAndNamesAgree ==
    strategy = "config" =>
        /\ \A n \in C29_Registered :
              LET id == getLayerID(config, n)
                  byName == getLayer(config, n, -1)
                  byId == getLayer(config, "", id.value)
              IN  /\ id.raised = "none"
                  /\ byName.raised = "none"
                  /\ byName.value.name = n
                  /\ byId.raised = "none"
                  /\ byId.value = byName.value
        /\ \A id \in 0..MaxLayers :
              id >= Cardinality(C29_Registered) => getLayer(config, "", id).raised = NotFound
        /\ \A n \in LayerNames \ C29_Registered : getLayer(config, n, -1).raised = NotFound
        /\ getLayer(config, "", -1).raised = InvalidArguments

----------------------------------------------------------------------------
(* ScaffoldIniConfig: construction from the sections of a .ini file *)

\* A section of the parsed file; an attribute it does not have is Absent
Section(name, type, geometryname, placementstrategy, ratioto) ==
    [name |-> name, type |-> type, morphologytype |-> IF type = "Cell" THEN "Geometry" ELSE Absent,
     geometryname |-> geometryname, placementstrategy |-> placementstrategy, ratioto |-> ratioto]

\* The sections a file is made of: one of each type, a second cell type
\* with every way of naming its geometry, its placement and its RatioTo,
\* a section without a type and one of an unknown type
SectionPool ==
    {Section("geometry", "Geometry", Absent, Absent, Absent),
     Section("placement", "Placement", Absent, Absent, Absent),
     Section("layer", "Layer", Absent, Absent, Absent),
     Section("connection", "Connection", Absent, Absent, Absent),
     Section("granule", "Cell", "geometry", "placement", Absent),
     Section("untyped", Absent, Absent, Absent, Absent),
     Section("mistyped", "Cel", Absent, Absent, Absent)}
    \cup {Section("golgi", "Cell", g, p, r) :
              g \in {"geometry", "nowhere"}, p \in {"placement", "nowhere"},
              r \in {Absent, "granule", "nowhere"}}

\* parsedConfig.sections(): section names are unique within a file
RECURSIVE IniFiles(_)
IniFiles(n) ==
    IF n = 0 THEN {<< >>}
    ELSE IniFiles(n - 1) \cup
         {Append(q[1], q[2]) :
             q \in {p \in IniFiles(n - 1) \X SectionPool :
                       /\ Len(p[1]) = n - 1
                       /\ \A i \in DOMAIN p[1] : p[1][i].name # p[2].name}}

\* sectionInitializers.keys()
sectionInitializers == {"Cell", "Layer", "Geometry", "Connection", "Placement"}

\* sectionDictionaries[sectionType]
sectionDictionaries(c, type) ==
    CASE type = "Cell" -> c.CellTypes
      [] type = "Layer" -> c.Layers
      [] type = "Geometry" -> c.Geometries
      [] type = "Connection" -> c.ConnectionTypes
      [] type = "Placement" -> c.PlacementStrategies

\* CellType(name) with what iniCellType reads from the section
iniCellType(name, section) ==
    [name |-> name,
     ratio |-> IF section.ratioto = Absent THEN Absent ELSE "ratio",
     ratioTo |-> section.ratioto,
     geometry |-> Absent, placement |-> Absent]

addCellType(c, cellType) ==
    [c EXCEPT !.CellTypes = DictSet(@, cellType.name, cellType),
              !.CellTypeIDs = Append(@, cellType.name)]

\* The initializer of a section type, and the add... call it ends with
initialized(c, section) ==
    CASE section.type = "Cell" -> addCellType(c, iniCellType(section.name, section))
      [] section.type = "Layer" -> addLayer(c, Layer(section.name, 1))
      [] section.type = "Geometry" ->
            [c EXCEPT !.Geometries = DictSet(@, section.name, [name |-> section.name])]
      [] section.type = "Connection" ->
            [c EXCEPT !.ConnectionTypes = DictSet(@, section.name, [name |-> section.name])]
      [] section.type = "Placement" ->
            [c EXCEPT !.PlacementStrategies = DictSet(@, section.name, [name |-> section.name])]

\* finalizeCellType: the exception it raises, or "none"
finalizeCellType_raises(c, cellType, section) ==
    IF section.morphologytype = Absent THEN "Exception"
    ELSE IF section.morphologytype # "Geometry" THEN "Exception"
    ELSE IF section.geometryname = Absent \/ ~DictHas(c.Geometries, section.geometryname)
         THEN "NameError"   \* iniGeometricCell formats its message with an unbound `name`
    ELSE IF section.placementstrategy = Absent THEN "Exception"
    ELSE IF ~DictHas(c.PlacementStrategies, section.placementstrategy) THEN "Exception"
    ELSE IF cellType.ratio # Absent /\ ~DictHas(c.CellTypes, cellType.ratioTo) THEN "Exception"
    ELSE "none"

\* finalizeCellType: setGeometry and setPlacementStrategy on the cell type
finalizeCellType(c, cellType, section) ==
    [c EXCEPT !.CellTypes =
        DictSet(@, cellType.name,
                [cellType EXCEPT !.geometry = DictGet(c.Geometries, section.geometryname).name,
                                 !.placement =
                                     DictGet(c.PlacementStrategies, section.placementstrategy).name])]

\* A variant that finalizes a section as soon as it is initialized
after_initializer_at_once(i, n) == << "finalize", i >>

\* The first loop runs over every section before the second loop starts
after_initializer(i, n) == IF i < n THEN << "initialize", i + 1 >> ELSE << "finalize", 1 >>

after_finalizer(i, n) == IF i < n THEN << "finalize", i + 1 >> ELSE << "done", i >>

\* ScaffoldIniConfig.__init__ raises: nothing more of it runs
IniRaise(e) ==
    /\ pc' = "raised"
    /\ error' = e

\* The file is read; an empty or missing file raises
IniRead ==
    /\ strategy = "ini"
    /\ pc = "read"
    /\ IF Len(config.sections) = 0
       THEN IniRaise("Exception")
       ELSE pc' = "initialize" /\ UNCHANGED error
    /\ k' = 1
    /\ UNCHANGED << strategy, cells_by_type, cfg, pending, order, work, results,
                    results2, cell_connections_by_tag, appends, calls,
                    densityWarningSent, stdout, config >>

\* One iteration of the first loop
IniInitialize ==
    /\ strategy = "ini"
    /\ pc = "initialize"
    /\ LET section == config.sections[k]
       IN  IF section.type = Absent \/ section.type \notin sectionInitializers
           THEN /\ IniRaise("Exception")
                /\ UNCHANGED << k, config, calls >>
           ELSE /\ config' = initialized(config, section)
                /\ calls' = Append(calls, << "initialize", section.name >>)
                /\ pc' = after_initializer(k, Len(config.sections))[1]
                /\ k' = after_initializer(k, Len(config.sections))[2]
                /\ UNCHANGED error
    /\ UNCHANGED << strategy, cells_by_type, cfg, pending, order, work, results,
                    results2, cell_connections_by_tag, appends,
                    densityWarningSent, stdout >>

\* One iteration of the second loop
IniFinalize ==
    /\ strategy = "ini"
    /\ pc = "finalize"
    /\ LET section == config.sections[k]
           object == DictGet(sectionDictionaries(config, section.type), section.name)
       IN  /\ calls' = Append(calls, << "finalize", section.name >>)
           /\ IF section.type = "Cell" /\ finalizeCellType_raises(config, object, section) # "none"
              THEN /\ IniRaise(finalizeCellType_raises(config, object, section))
                   /\ UNCHANGED << k, config >>
              ELSE /\ config' = IF section.type = "Cell"
                                 THEN finalizeCellType(config, object, section)
                                 ELSE config
                   /\ pc' = after_finalizer(k, Len(config.sections))[1]
                   /\ k' = after_finalizer(k, Len(config.sections))[2]
                   /\ UNCHANGED error
    /\ UNCHANGED << strategy, cells_by_type, cfg, pending, order, work, results,
                    results2, cell_connections_by_tag, appends,
                    densityWarningSent, stdout >>

InitIni ==
    \E file \in IniFiles(MaxSections) :
        /\ strategy = "ini"
        /\ cells_by_type = [from |-> NoCells, from2 |-> NoCells, to |-> NoCells]
        /\ cfg = NoConfig
        /\ pending = 0
        /\ pc = "read"
        /\ order = << >>
        /\ k = 0
        /\ work = << >>
        /\ results = << >>
        /\ results2 = << >>
        /\ cell_connections_by_tag = NoStore
        /\ appends = NoStore
        /\ calls = << >>
        /\ error = "none"
        /\ densityWarningSent = FALSE
        /\ stdout = << >>
        /\ config = [ScaffoldConfigInit EXCEPT !.sections = file]

NextIni == IniRead \/ IniInitialize \/ IniFinalize

SpecIni == InitIni /\ [][NextIni]_vars

----------------------------------------------------------------------------
(* C30: ScaffoldIniConfig construction is two-phase: no finalizer runs     *)
(* before the initializer of every section has completed; so a cell type   *)
(* whose geometry, placement strategy and RatioTo cell type are declared   *)
(* anywhere in the file, before or after it, is finalized with them; and   *)
(* when a section has no type or an unknown type, construction raises and  *)
(* no finalizer has run.                                                   *)
C30_Declared(type, name) ==
    \E i \in DOMAIN config.sections :
        config.sections[i].type = type /\ config.sections[i].name = name

C30_Resolvable ==
    /\ config.sections # << >>
    /\ \A i \in DOMAIN config.sections :
          LET section == config.sections[i]
          IN  /\ section.type \in sectionInitializers
              /\ section.type = "Cell" =>
                    /\ C30_Declared("Geometry", section.geometryname)
                    /\ C30_Declared("Placement", section.placementstrategy)
                    /\ section.ratioto # Absent => C30_Declared("Cell", section.ratioto)

C30_Untyped ==
    \E i \in DOMAIN config.sections :
        config.sections[i].type = Absent \/ config.sections[i].type \notin sectionInitializers

C30_Ended == pc \in {"done", "raised"}

C30_TwoPhase ==
    strategy = "ini" =>
        /\ \A i \in DOMAIN calls :
              calls[i][1] = "finalize" =>
                  \A n \in DOMAIN config.sections :
                      \E j \in 1..(i - 1) : calls[j] = << "initialize", config.sections[n].name >>
        /\ (C30_Ended /\ C30_Resolvable) =>
              /\ pc = "done"
              /\ error = "none"
              /\ \A i \in DOMAIN config.sections :
                    config.sections[i].type = "Cell" =>
                        LET cellType == DictGet(config.CellTypes, config.sections[i].name)
                        IN  /\ cellType.geometry = config.sections[i].geometryname
                            /\ cellType.placement = config.sections[i].placementstrategy
        /\ (C30_Ended /\ C30_Untyped) =>
              /\ pc = "raised"
              /\ error = "Exception"
              /\ \A i \in DOMAIN calls : calls[i][1] # "finalize"

\* The first section is a cell type whose geometry, placement strategy and
\* RatioTo cell type are all declared after it, and construction completed
C30_Witness ==
    /\ strategy = "ini"
    /\ pc = "done"
    /\ Len(config.sections) = 4
    /\ config.sections[1].name = "golgi"
    /\ config.sections[1].ratioto = "granule"
    /\ DictGet(config.CellTypes, "golgi").geometry = "geometry"
    /\ DictGet(config.CellTypes, "golgi").placement = "placement"

=============================================================================
